---------------------------- MODULE Spec2Model ----------------------------
(***************************************************************************)
(* A model of the fmath expression language: parser (src/src/parser.rs),   *)
(* bytecode compiler (src/src/compiler.rs) and the stack VM with its       *)
(* tree-walking evaluator for function bodies (src/src/interpreter.rs).    *)
(*                                                                         *)
(* Numbers.  An f64 is modelled as a pair <<n, d>>: the rational n/d in    *)
(* lowest terms with d > 0, or one of the three special values             *)
(*   <<1, 0>> = +inf,   <<-1, 0>> = -inf,   <<0, 0>> = NaN.                *)
(* Rounding error and the sign of zero are not modelled.                   *)
(***************************************************************************)
EXTENDS Integers, Sequences, FiniteSets, TLC

----------------------------------------------------------------------------
(* f64 arithmetic *)

NaN == <<0, 0>>
PosInf == <<1, 0>>
NegInf == <<-1, 0>>

AbsInt(n) == IF n < 0 THEN -n ELSE n
SignInt(n) == IF n < 0 THEN -1 ELSE IF n > 0 THEN 1 ELSE 0

RECURSIVE Gcd(_, _)
Gcd(a, b) == IF b = 0 THEN a ELSE Gcd(b, a % b)

\* the pair n/d brought to lowest terms; a zero denominator gives inf or NaN
Norm(n, d) ==
    IF d = 0 THEN <<SignInt(n), 0>>
    ELSE LET g == Gcd(AbsInt(n), AbsInt(d))
             s == IF d < 0 THEN -1 ELSE 1
         IN <<(s * n) \div g, (s * d) \div g>>

Num(n) == <<n, 1>>
IsNaN(a) == a = NaN
IsFinite(a) == a[2] # 0
IsInteger(a) == a[2] = 1

RNeg(a) == <<-a[1], a[2]>>

RAdd(a, b) ==
    IF IsNaN(a) \/ IsNaN(b) THEN NaN
    ELSE IF ~IsFinite(a) /\ ~IsFinite(b) THEN (IF a = b THEN a ELSE NaN)
    ELSE IF ~IsFinite(a) THEN a
    ELSE IF ~IsFinite(b) THEN b
    ELSE Norm(a[1] * b[2] + b[1] * a[2], a[2] * b[2])

RSub(a, b) == RAdd(a, RNeg(b))

RMul(a, b) == Norm(a[1] * b[1], a[2] * b[2])

\* 1.0 / a
Recip(a) ==
    IF a[1] = 0 THEN (IF a[2] = 0 THEN NaN ELSE PosInf)
    ELSE IF a[1] < 0 THEN <<-a[2], -a[1]>>
    ELSE <<a[2], a[1]>>

RDiv(a, b) == RMul(a, Recip(b))

\* a <= b on f64: false whenever an operand is NaN
RLe(a, b) ==
    IF IsNaN(a) \/ IsNaN(b) THEN FALSE
    ELSE IF ~IsFinite(a) /\ ~IsFinite(b) THEN a[1] <= b[1]
    ELSE a[1] * b[2] <= b[1] * a[2]

RLt(a, b) == RLe(a, b) /\ a # b

\* f64::floor and f64::ceil
RFloor(a) == IF IsFinite(a) THEN Num(a[1] \div a[2]) ELSE a
RCeil(a) == IF IsFinite(a) THEN Num(-((-a[1]) \div a[2])) ELSE a
RAbs(a) == <<AbsInt(a[1]), a[2]>>

RECURSIVE IntPow(_, _)
IntPow(n, k) == IF k = 0 THEN 1 ELSE n * IntPow(n, k - 1)
\* a multiplied k times by itself
PowNat(a, k) == IF k = 0 THEN Num(1) ELSE Norm(IntPow(a[1], k), IntPow(a[2], k))

\* f64::powf.  Exact for integer exponents; for the other exponents only the
\* results that are rational whatever the base are given (the inputs of the
\* model raise no other base to a fractional power).
RPow(a, b) ==
    IF b = Num(0) \/ a = Num(1) THEN Num(1)
    ELSE IF IsNaN(a) \/ IsNaN(b) THEN NaN
    ELSE IF IsInteger(b) THEN
        (IF b[1] > 0 THEN PowNat(a, b[1]) ELSE Recip(PowNat(a, -b[1])))
    ELSE IF ~IsFinite(b) THEN
        (IF RAbs(a) = Num(1) THEN Num(1)
         ELSE IF RLt(Num(1), RAbs(a)) = (b = PosInf) THEN PosInf ELSE Num(0))
    ELSE IF a = Num(0) THEN (IF b[1] > 0 THEN Num(0) ELSE PosInf)
    ELSE IF ~IsFinite(a) /\ a[1] > 0 THEN (IF b[1] > 0 THEN PosInf ELSE Num(0))
    ELSE NaN

\* f64 -> i64 with `as`: saturating, NaN to 0, the fraction dropped.  The
\* saturation values stand for i64::MAX and i64::MIN (the integers of the
\* model checker are 32 bits wide).
I64_MAX == 2147483647
I64_MIN == -2147483647
AsI64(a) ==
    IF IsNaN(a) THEN 0
    ELSE IF ~IsFinite(a) THEN (IF a[1] > 0 THEN I64_MAX ELSE I64_MIN)
    ELSE IF a[1] >= 0 THEN a[1] \div a[2] ELSE -((-a[1]) \div a[2])

\* f64 -> u64 with `as`: negative values and NaN to 0
AsU64(a) == IF AsI64(a) < 0 THEN 0 ELSE AsI64(a)

RECURSIVE FactLoop(_, _)
FactLoop(acc, n) == IF n > 1 THEN FactLoop(RMul(acc, Num(n)), n - 1) ELSE acc

\* factorial: NaN below zero, 1 at zero, else the product n * (n-1) * ... * 2
\* for n = floor(x); on +inf the running product of the f64 loop is +inf
factorial(x) ==
    IF RLt(x, Num(0)) THEN NaN
    ELSE IF x = Num(0) THEN Num(1)
    ELSE IF x = PosInf THEN PosInf
    ELSE FactLoop(Num(1), AsU64(RFloor(x)))

----------------------------------------------------------------------------
(* The AST (ast.rs) and the bytecode (bytecode.rs) *)

Number(n) == [k |-> "Number", n |-> n]
Ident(name) == [k |-> "Ident", name |-> name]
Assign(name, expr) == [k |-> "Assign", name |-> name, expr |-> expr]
BinaryOp(left, op, right) == [k |-> "BinaryOp", left |-> left, op |-> op, right |-> right]
Function(func, arg) == [k |-> "Function", func |-> func, arg |-> arg]
FunctionDef(name, arg, body) == [k |-> "FunctionDef", name |-> name, arg |-> arg, body |-> body]
FunctionCall(name, arg) == [k |-> "FunctionCall", name |-> name, arg |-> arg]
Sequence(exprs) == [k |-> "Sequence", exprs |-> exprs]
SumExpr(from, to, param, body) ==
    [k |-> "Sum", from |-> from, to |-> to, param |-> param, body |-> body]
ProductExpr(from, to, param, body) ==
    [k |-> "Product", from |-> from, to |-> to, param |-> param, body |-> body]

PushNumber(n) == [op |-> "PushNumber", n |-> n]
Instr(op) == [op |-> op]
StoreVar(name) == [op |-> "StoreVar", name |-> name]
LoadVar(name) == [op |-> "LoadVar", name |-> name]
CallUserFunction(name) == [op |-> "CallUserFunction", name |-> name]
SumLoop(from, to, param, body) ==
    [op |-> "SumLoop", from |-> from, to |-> to, param |-> param, body |-> body]
ProductLoop(from, to, param, body) ==
    [op |-> "ProductLoop", from |-> from, to |-> to, param |-> param, body |-> body]

\* the binary operators of the lexer and the instruction of each
BinaryOperator == {"Plus", "Minus", "Star", "Slash", "Pow"}
BinaryInstr(op) ==
    CASE op = "Plus" -> Instr("Add")
      [] op = "Minus" -> Instr("Sub")
      [] op = "Star" -> Instr("Mul")
      [] op = "Slash" -> Instr("Div")
      [] op = "Pow" -> Instr("Pow")

\* the one-operand instructions whose results the model computes
UnaryOps == {"Floor", "Abs", "Fact", "Log"}
\* the two-operand instructions
BinaryOps == {"Add", "Sub", "Mul", "Div", "Pow", "LogBase"}

----------------------------------------------------------------------------
(* compile (compiler.rs) *)

\* the argument is exactly a two-element Sequence (randint, log base form)
IsPair(arg) == arg.k = "Sequence" /\ Len(arg.exprs) = 2

\* the scratch name of the discards
TmpName == "_tmp"

\* a faulty variant of SeqDiscard: no discard is ever emitted
SeqDiscardNone(exprs, i) == << >>

\* what Sequence emits after element i of exprs: a discard, unless the
\* element is the last or an assignment
SeqDiscard(exprs, i) ==
    IF i # Len(exprs) /\ exprs[i].k # "Assign" THEN <<StoreVar(TmpName)>> ELSE << >>

RECURSIVE Compile(_), CompileSeq(_, _)
\* the instructions compile appends for expr
Compile(expr) ==
    CASE expr.k \in {"Sum", "Product"} ->
           LET from_prog == Compile(expr.from)
               to_prog == Compile(expr.to)
               body_prog == Compile(expr.body)
           IN IF expr.k = "Sum"
              THEN <<SumLoop(from_prog, to_prog, expr.param, body_prog)>>
              ELSE <<ProductLoop(from_prog, to_prog, expr.param, body_prog)>>
      [] expr.k = "Number" -> <<PushNumber(expr.n)>>
      [] expr.k = "Ident" -> <<LoadVar(expr.name)>>
      [] expr.k = "Assign" -> Compile(expr.expr) \o <<StoreVar(expr.name)>>
      [] expr.k = "BinaryOp" ->
           Compile(expr.left) \o Compile(expr.right) \o <<BinaryInstr(expr.op)>>
      [] expr.k = "Function" ->
           IF expr.func = "Rand" THEN <<Instr("Rand")>>
           ELSE IF expr.func \in {"RandInt", "LogBase"} THEN
               (IF IsPair(expr.arg)
                THEN Compile(expr.arg.exprs[1]) \o Compile(expr.arg.exprs[2])
                         \o <<Instr(expr.func)>>
                ELSE << >>)
           ELSE Compile(expr.arg) \o <<Instr(expr.func)>>
      [] expr.k = "FunctionDef" -> << >>
      [] expr.k = "FunctionCall" ->
           Compile(expr.arg) \o <<CallUserFunction(expr.name)>>
      [] expr.k = "Sequence" -> CompileSeq(expr.exprs, 1)
\* the Sequence loop from element i on
CompileSeq(exprs, i) ==
    IF i > Len(exprs) THEN << >>
    ELSE Compile(exprs[i]) \o SeqDiscard(exprs, i) \o CompileSeq(exprs, i + 1)

RECURSIVE CompilePanics(_)
\* compile panics: randint or the log base form without exactly two arguments
CompilePanics(expr) ==
    CASE expr.k \in {"Sum", "Product"} ->
           CompilePanics(expr.from) \/ CompilePanics(expr.to) \/ CompilePanics(expr.body)
      [] expr.k \in {"Number", "Ident", "FunctionDef"} -> FALSE
      [] expr.k = "Assign" -> CompilePanics(expr.expr)
      [] expr.k = "BinaryOp" -> CompilePanics(expr.left) \/ CompilePanics(expr.right)
      [] expr.k = "Function" ->
           IF expr.func = "Rand" THEN FALSE
           ELSE IF expr.func \in {"RandInt", "LogBase"} THEN
               (~IsPair(expr.arg)
                \/ CompilePanics(expr.arg.exprs[1]) \/ CompilePanics(expr.arg.exprs[2]))
           ELSE CompilePanics(expr.arg)
      [] expr.k = "FunctionCall" -> CompilePanics(expr.arg)
      [] expr.k = "Sequence" ->
           \E i \in 1..Len(expr.exprs) : CompilePanics(expr.exprs[i])

----------------------------------------------------------------------------
(* The state of one run *)

VARIABLES
    input,           \* the source (token lines) or the compiled file of the run
    phase,           \* "parse", "compile", "run", "evalmain", "done"
    main_expr,       \* parse: the main expression
    user_functions,  \* parse: function name -> [param, body]
    program,         \* compile: the bytecode of the main expression
    frames,          \* the call stack: VM activations and eval_expr activations
    vars,            \* the environment: variable name -> f64
    ret,             \* the value an activation has just returned to its caller
    outcome,         \* the Result of execute, or a panic / stack exhaustion
    eval_outcome,    \* the Result of eval_expr on the main expression
    last,            \* observation: what the latest step did
    token_lines,     \* tokenize: the token lines of a source text
    encoded,         \* encode_to_vec: the bytes of the .mthc file
    top_run          \* the finished run of the top-level executor, kept while
                     \* the sub-program executor runs the same program

vs == <<input, phase, main_expr, user_functions, program, frames, vars, ret,
        outcome, eval_outcome, last, token_lines, encoded, top_run>>
static == <<input, main_expr, user_functions, program, token_lines, encoded,
            top_run>>

\* Option<f64>
None == [some |-> FALSE]
Some(v) == [some |-> TRUE, v |-> v]

\* HashMap<String, f64>: get, insert, remove
Get(env, name) == IF name \in DOMAIN env THEN Some(env[name]) ELSE None
Insert(env, name, v) ==
    [n \in DOMAIN env \cup {name} |-> IF n = name THEN v ELSE env[n]]
Remove(env, name) == [n \in DOMAIN env \ {name} |-> env[n]]
EmptyEnv == [n \in {} |-> NaN]

\* a faulty variant of Restore: the binding of the callee is left in place
RestoreKeep(env, name, old) == env

\* if let Some(v) = old { insert(name, v) } else { remove(name) }
Restore(env, name, old) ==
    IF old.some THEN Insert(env, name, old.v) ELSE Remove(env, name)

\* a faulty variant of CallEnv: the body runs in an environment of its own
CallEnvFresh(env, param, arg_val) == Insert(EmptyEnv, param, arg_val)

\* let old = vars.insert(param, arg_val): the environment the body runs in
CallEnv(env, param, arg_val) == Insert(env, param, arg_val)

NoRet == [k |-> "none"]
RetVal(v) == [k |-> "val", v |-> v]
RetStack(s) == [k |-> "stack", s |-> s]

NoOutcome == [k |-> "none"]
Ok(v) == [k |-> "ok", v |-> v]
Err(msg) == [k |-> "err", msg |-> msg]
Fatal(msg) == [k |-> "fatal", msg |-> msg]

\* the depth of nested activations the call stack of the process holds
StackLimit == 12
\* the iterations of one loop the model follows
MaxIter == 6

\* the values Rng::random::<f64>() draws from [0, 1) in the model
RandUnit == {Num(0), <<1, 2>>}

NoLoop ==
    [ph |-> "none", from_val |-> NaN, to_val |-> NaN, from_i |-> 0, to_i |-> 0,
     i |-> 0, acc |-> NaN, old |-> None, pre |-> None, idxs |-> << >>,
     vals |-> << >>]

\* an activation of run_bytecode_with_functions ("top") or of
\* run_bytecode_with_functions_inner ("inner") on prog with its own stack
VmFrame(fn, prog) ==
    [k |-> "vm", fn |-> fn, prog |-> prog, pc |-> 1, stack |-> << >>, lp |-> NoLoop]

\* an activation of eval_expr on expression e
EvFrame(e) ==
    [k |-> "ev", e |-> e, st |-> "start", l |-> NaN, idx |-> 1, lp |-> NoLoop]

Top == frames[Len(frames)]
SetTop(f) == [frames EXCEPT ![Len(frames)] = f]
Popped == SubSeq(frames, 1, Len(frames) - 1)
Last(s) == s[Len(s)]
Front(s) == SubSeq(s, 1, Len(s) - 1)

Ev(op) == [op |-> op]

\* an Err that ends only the activation it occurs in, the caller going on
AbortInnermost(o, ev) ==
    /\ frames' = (IF frames = << >> THEN frames ELSE Popped)
    /\ ret' = NoRet
    /\ last' = ev
    /\ IF Len(frames) <= 1
       THEN IF phase = "evalmain"
            THEN eval_outcome' = o /\ phase' = "evaldone" /\ UNCHANGED outcome
            ELSE outcome' = o /\ phase' = "done" /\ UNCHANGED eval_outcome
       ELSE UNCHANGED <<phase, outcome, eval_outcome>>
    /\ UNCHANGED <<vars, static>>

\* observation: the instruction the outermost executor activation is at, and
\* its stack, when the run ends
EndedAt ==
    IF frames # << >> /\ frames[1].k = "vm"
    THEN [at |-> frames[1].pc, stack_at |-> frames[1].stack]
    ELSE [at |-> 0, stack_at |-> << >>]

\* the run ends here: an Err propagated by `?`, a panic, or the final result
Abort(o, ev) ==
    /\ IF phase = "evalmain"
       THEN eval_outcome' = o /\ phase' = "evaldone" /\ UNCHANGED outcome
       ELSE outcome' = o /\ phase' = "done" /\ UNCHANGED eval_outcome
    /\ frames' = << >>
    /\ ret' = NoRet
    /\ last' = (ev @@ EndedAt)
    /\ UNCHANGED <<vars, static>>

Continue(newFrames, newVars, newRet, ev) ==
    /\ frames' = newFrames
    /\ vars' = newVars
    /\ ret' = newRet
    /\ last' = ev
    /\ UNCHANGED <<phase, outcome, eval_outcome, static>>

\* a nested call: the caller becomes newTop and callee runs on top of it,
\* unless the call stack is exhausted
Call(newTop, callee, newVars, ev) ==
    IF Len(frames) >= StackLimit
    THEN Abort(Fatal("stack overflow"), Ev("StackOverflow"))
    ELSE Continue(Append(SetTop(newTop), callee), newVars, NoRet, ev)

\* an eval_expr activation returns Ok(v)
Return(v, newVars, ev) == Continue(Popped, newVars, RetVal(v), ev)

InVm == phase = "run" /\ frames # << >> /\ Top.k = "vm"
\* the VM is about to execute the instruction at pc
AtInstr == InVm /\ Top.lp.ph = "none" /\ ret.k = "none" /\ Top.pc <= Len(Top.prog)
CurInstr == Top.prog[Top.pc]

----------------------------------------------------------------------------
(* run_bytecode_with_functions and run_bytecode_with_functions_inner *)

\* the logarithm of b in base a (b.log(a)) where it is an integer of small
\* size; 1 is no base (ln 1 = 0 divides)
RLog(b, a) ==
    IF \E e \in -4..4 : a # Num(1) /\ IsFinite(a) /\ RLt(Num(0), a) /\ RPow(a, Num(e)) = b
    THEN Num(CHOOSE e \in -4..4 : RPow(a, Num(e)) = b)
    ELSE NaN

\* ln of the integers 1..10, in thousandths
LnMilli(k) == <<0, 693, 1099, 1386, 1609, 1792, 1946, 2079, 2197, 2303>>[k]

\* the natural logarithm (f64::ln), to three decimals on the quotients of the
\* integers 1..10; ln 0 = -inf, ln of a negative number is NaN
RLn(a) ==
    CASE IsNaN(a) \/ a = NegInf -> NaN
      [] a = PosInf -> PosInf
      [] a = Num(0) -> NegInf
      [] IsFinite(a) /\ a[1] < 0 -> NaN
      [] IsFinite(a) /\ a[1] \in 1..10 /\ a[2] \in 1..10 ->
           Norm(LnMilli(a[1]) - LnMilli(a[2]), 1000)
      [] OTHER -> NaN

\* the operands taken in the order they are popped: b op a
BinaryValueSwapped(op, a, b) ==
    CASE op = "Add" -> RAdd(b, a)
      [] op = "Sub" -> RSub(b, a)
      [] op = "Mul" -> RMul(b, a)
      [] op = "Div" -> RDiv(b, a)
      [] op = "Pow" -> RPow(b, a)
      [] op = "LogBase" -> RLog(a, b)

\* the value a two-operand instruction pushes: a was pushed first, b last
BinaryValue(op, a, b) ==
    CASE op = "Add" -> RAdd(a, b)
      [] op = "Sub" -> RSub(a, b)
      [] op = "Mul" -> RMul(a, b)
      [] op = "Div" -> RDiv(a, b)
      [] op = "Pow" -> RPow(a, b)
      [] op = "LogBase" -> RLog(b, a)

\* the value a one-operand instruction pushes
UnaryValue(op, a) ==
    CASE op = "Floor" -> RFloor(a)
      [] op = "Abs" -> RAbs(a)
      [] op = "Fact" -> factorial(a)
      [] op = "Log" -> RLn(a)

\* the Err of a pop from a stack that holds n values (n below the need)
UnderflowMsg(op, n) ==
    IF op \in {"LogBase", "RandInt"}
    THEN "Stack underflow on " \o op \o (IF n = 0 THEN " (b)" ELSE " (a)")
    ELSE IF op = "CallUserFunction" THEN "Stack underflow on user function call"
    ELSE "Stack underflow on " \o op

\* top of stack replaced: n values popped, v pushed, pc advanced
Pushed(f, n, v) ==
    [f EXCEPT !.stack = Append(SubSeq(@, 1, Len(@) - n), v), !.pc = @ + 1]

ExecPushNumber ==
    /\ AtInstr /\ CurInstr.op = "PushNumber"
    /\ Continue(SetTop(Pushed(Top, 0, CurInstr.n)), vars, NoRet, Ev("PushNumber"))

\* a missing first operand taken as 0 instead of an error
ExecBinaryDefault ==
    /\ AtInstr /\ CurInstr.op \in BinaryOps
    /\ LET s == Top.stack
           n == Len(s)
       IN IF n < 1
          THEN Abort(Err(UnderflowMsg(CurInstr.op, n)), Ev("Underflow"))
          ELSE Continue(SetTop(Pushed(Top, IF n = 1 THEN 1 ELSE 2,
                                      BinaryValue(CurInstr.op,
                                                  IF n = 1 THEN Num(0) ELSE s[n - 1],
                                                  s[n]))),
                        vars, NoRet, Ev(CurInstr.op))

ExecBinary ==
    /\ AtInstr /\ CurInstr.op \in BinaryOps
    /\ LET s == Top.stack
           n == Len(s)
       IN IF n < 2
          THEN Abort(Err(UnderflowMsg(CurInstr.op, n)), Ev("Underflow"))
          ELSE Continue(SetTop(Pushed(Top, 2, BinaryValue(CurInstr.op, s[n - 1], s[n]))),
                        vars, NoRet, Ev(CurInstr.op))

ExecUnary ==
    /\ AtInstr /\ CurInstr.op \in UnaryOps
    /\ LET s == Top.stack
           n == Len(s)
       IN IF n < 1
          THEN Abort(Err(UnderflowMsg(CurInstr.op, n)), Ev("Underflow"))
          ELSE Continue(SetTop(Pushed(Top, 1, UnaryValue(CurInstr.op, s[n]))),
                        vars, NoRet, Ev(CurInstr.op))

ExecRand ==
    /\ AtInstr /\ CurInstr.op = "Rand"
    /\ \E r \in RandUnit :
          Continue(SetTop(Pushed(Top, 0, r)), vars, NoRet, Ev("Rand"))

\* the bounds taken in the order given
RandIntRangeUnordered(a, b) ==
    [amin |-> AsI64(RCeil(a)), amax |-> AsI64(RFloor(b))]

\* the bounds ordered, then ceil of the lower and floor of the upper
RandIntRange(a, b) ==
    LET amin == IF RLe(a, b) THEN a ELSE b
        amax == IF RLe(a, b) THEN b ELSE a
    IN [amin |-> AsI64(RCeil(amin)), amax |-> AsI64(RFloor(amax))]

ExecRandInt ==
    /\ AtInstr /\ CurInstr.op = "RandInt"
    /\ LET s == Top.stack
           n == Len(s)
       IN IF n < 2
          THEN Abort(Err(UnderflowMsg("RandInt", n)), Ev("Underflow"))
          ELSE LET r == RandIntRange(s[n - 1], s[n])
               IN IF r.amin > r.amax
                  THEN Abort(Err("Invalid range for randint: min > max"),
                             [op |-> "RandIntErr", a |-> s[n - 1], b |-> s[n]])
                  ELSE \E val \in r.amin..r.amax :
                          Continue(SetTop(Pushed(Top, 2, Num(val))), vars, NoRet,
                                   [op |-> "RandInt", a |-> s[n - 1], b |-> s[n],
                                    val |-> val])

ExecStoreVar ==
    /\ AtInstr /\ CurInstr.op = "StoreVar"
    /\ LET s == Top.stack
           n == Len(s)
       IN IF n < 1
          THEN Abort(Err(UnderflowMsg("StoreVar", n)), Ev("Underflow"))
          ELSE Continue(SetTop([Top EXCEPT !.stack = Front(s), !.pc = @ + 1]),
                        Insert(vars, CurInstr.name, s[n]), NoRet, Ev("StoreVar"))

\* a faulty variant of ExecLoadVar: the sub-program executor reads an
\* unbound variable as 0.0
ExecLoadVarInnerDefault ==
    /\ AtInstr /\ CurInstr.op = "LoadVar"
    /\ IF CurInstr.name \notin DOMAIN vars /\ Top.fn = "top"
       THEN Abort(Err("Variable not found"), Ev("LoadVarErr"))
       ELSE Continue(SetTop(Pushed(Top, 0,
                         IF CurInstr.name \in DOMAIN vars
                         THEN vars[CurInstr.name] ELSE Num(0))),
                     vars, NoRet, Ev("LoadVar"))

ExecLoadVar ==
    /\ AtInstr /\ CurInstr.op = "LoadVar"
    /\ IF CurInstr.name \notin DOMAIN vars
       THEN Abort(Err("Variable not found"), Ev("LoadVarErr"))
       ELSE Continue(SetTop(Pushed(Top, 0, vars[CurInstr.name])), vars, NoRet,
                     Ev("LoadVar"))

\* the argument popped before the function is looked up
ExecCallUserFunctionPopFirst ==
    /\ AtInstr /\ CurInstr.op = "CallUserFunction"
    /\ LET s == Top.stack
           n == Len(s)
           name == CurInstr.name
       IN IF n < 1
          THEN Abort(Err(UnderflowMsg("CallUserFunction", n)), Ev("Underflow"))
          ELSE IF name \notin DOMAIN user_functions
          THEN Abort(Err("User-defined function not found"), Ev("CallErr"))
          ELSE LET arg_name == user_functions[name].param
                   body == user_functions[name].body
                   old == Get(vars, arg_name)
               IN Call([Top EXCEPT !.stack = Front(s),
                                   !.lp = [NoLoop EXCEPT !.ph = "call", !.old = old,
                                                         !.pre = old]],
                       EvFrame(body),
                       CallEnv(vars, arg_name, s[n]),
                       [op |-> "CallEnter", by |-> "vm", name |-> name,
                        param |-> arg_name, arg |-> s[n], env |-> vars,
                        body |-> body])

\* CallUserFunction: look the function up, pop the argument, bind the
\* parameter and evaluate the body with eval_expr
ExecCallUserFunction ==
    /\ AtInstr /\ CurInstr.op = "CallUserFunction"
    /\ LET s == Top.stack
           n == Len(s)
           name == CurInstr.name
       IN IF name \notin DOMAIN user_functions
          THEN Abort(Err("User-defined function not found"), Ev("CallErr"))
          ELSE IF n < 1
          THEN Abort(Err(UnderflowMsg("CallUserFunction", n)), Ev("Underflow"))
          ELSE LET arg_name == user_functions[name].param
                   body == user_functions[name].body
                   old == Get(vars, arg_name)
               IN Call([Top EXCEPT !.stack = Front(s),
                                   !.lp = [NoLoop EXCEPT !.ph = "call", !.old = old,
                                                         !.pre = old]],
                       EvFrame(body),
                       CallEnv(vars, arg_name, s[n]),
                       [op |-> "CallEnter", by |-> "vm", name |-> name,
                        param |-> arg_name, arg |-> s[n], env |-> vars,
                        body |-> body])

\* the body has returned: restore the parameter, push the result
VmCallReturn ==
    /\ InVm /\ Top.lp.ph = "call" /\ ret.k = "val"
    /\ LET arg_name == user_functions[CurInstr.name].param
       IN Continue(SetTop([Top EXCEPT !.stack = Append(@, ret.v), !.pc = @ + 1,
                                      !.lp = NoLoop]),
                   Restore(vars, arg_name, Top.lp.old), NoRet,
                   [op |-> "CallReturn", by |-> "vm", name |-> CurInstr.name,
                    param |-> arg_name, pre |-> Top.lp.pre, result |-> ret.v,
                    depth |-> Len(frames)])

(* SumLoop / ProductLoop, and the Sum / Product arms of eval_expr *)

IsLoopInstr(ins) == ins.op \in {"SumLoop", "ProductLoop"}
IsSum(kind) == kind \in {"SumLoop", "Sum"}

\* a faulty variant of LoopBounds: the lower bound is rounded down too
LoopBoundsFloor(from_val, to_val) ==
    [from_i |-> AsI64(RFloor(from_val)), to_i |-> AsI64(RFloor(to_val))]

\* from_i = ceil(from) as i64, to_i = floor(to) as i64
LoopBounds(from_val, to_val) ==
    [from_i |-> AsI64(RCeil(from_val)), to_i |-> AsI64(RFloor(to_val))]

\* let mut acc = 0.0 (sum) or 1.0 (product)
LoopStartAcc(kind) == IF IsSum(kind) THEN Num(0) ELSE Num(1)
\* acc += result or acc *= result
LoopAccumulate(kind, acc, result) ==
    IF IsSum(kind) THEN RAdd(acc, result) ELSE RMul(acc, result)

\* a faulty variant of LoopReady: the body runs before the range is tested
LoopReadyDoWhile(lp, kind, from_val, to_val) ==
    LET b == LoopBounds(from_val, to_val)
    IN [lp EXCEPT !.ph = "iter",
                  !.from_val = from_val, !.to_val = to_val,
                  !.from_i = b.from_i, !.to_i = b.to_i,
                  !.i = b.from_i, !.acc = LoopStartAcc(kind)]

\* the loop state once both bounds are known: for i in from_i..=to_i
LoopReady(lp, kind, from_val, to_val) ==
    LET b == LoopBounds(from_val, to_val)
    IN [lp EXCEPT !.ph = IF b.from_i <= b.to_i THEN "iter" ELSE "exit",
                  !.from_val = from_val, !.to_val = to_val,
                  !.from_i = b.from_i, !.to_i = b.to_i,
                  !.i = b.from_i, !.acc = LoopStartAcc(kind)]

\* a faulty variant of LoopNext: i is not advanced and the range never ends
LoopNextStay(lp, kind, result) ==
    [lp EXCEPT !.ph = "iter",
               !.acc = LoopAccumulate(kind, lp.acc, result),
               !.vals = Append(@, result)]

\* the loop state after the body of iteration i gave result
LoopNext(lp, kind, result) ==
    [lp EXCEPT !.ph = IF lp.i < lp.to_i THEN "iter" ELSE "exit",
               !.i = IF lp.i < lp.to_i THEN lp.i + 1 ELSE lp.i,
               !.acc = LoopAccumulate(kind, lp.acc, result),
               !.vals = Append(@, result)]

\* the environment after one iteration: the sub-program executor and
\* eval_expr restore what the insert displaced, the top-level executor
\* leaves the parameter bound
EnvAfterIteration(by, env, param, old) ==
    IF by = "top" THEN env ELSE Restore(env, param, old)

\* the environment after the whole loop: the top-level executor removes
\* the parameter
EnvAfterLoop(by, env, param) ==
    IF by = "top" THEN Remove(env, param) ELSE env

LoopExitEvent(by, kind, param, body_is_param, lp, depth) ==
    [op |-> "LoopExit", by |-> by, kind |-> kind, param |-> param,
     body_is_param |-> body_is_param,
     pre |-> lp.pre, from_val |-> lp.from_val, to_val |-> lp.to_val,
     idxs |-> lp.idxs, vals |-> lp.vals, pushed |-> lp.acc, depth |-> depth]

\* the loop instruction starts: run the from sub-program on a new stack
VmLoopEnter ==
    /\ AtInstr /\ IsLoopInstr(CurInstr)
    /\ Call([Top EXCEPT !.lp = [NoLoop EXCEPT !.ph = "from",
                                              !.pre = Get(vars, CurInstr.param)]],
            VmFrame("inner", CurInstr.from), vars, Ev("LoopEnter"))

\* from_stack.pop(), then run the to sub-program
VmLoopFromDone ==
    /\ InVm /\ Top.lp.ph = "from" /\ ret.k = "stack"
    /\ IF ret.s = << >>
       THEN Abort(Err("No result on stack (from)"), Ev("LoopErr"))
       ELSE Call([Top EXCEPT !.lp.ph = "to", !.lp.from_val = Last(ret.s)],
                 VmFrame("inner", CurInstr.to), vars, Ev("LoopFrom"))

\* to_stack.pop(), then the range
VmLoopToDone ==
    /\ InVm /\ Top.lp.ph = "to" /\ ret.k = "stack"
    /\ IF ret.s = << >>
       THEN Abort(Err("No result on stack (to)"), Ev("LoopErr"))
       ELSE Continue(SetTop([Top EXCEPT !.lp = LoopReady(@, CurInstr.op,
                                                         Top.lp.from_val, Last(ret.s))]),
                     vars, NoRet, Ev("LoopTo"))

\* one iteration starts: bind the parameter, run the body on a new stack
VmLoopIterate ==
    /\ InVm /\ Top.lp.ph = "iter" /\ ret.k = "none"
    /\ Len(Top.lp.idxs) < MaxIter
    /\ Call([Top EXCEPT !.lp.ph = "body", !.lp.old = Get(vars, CurInstr.param),
                        !.lp.idxs = Append(@, Top.lp.i)],
            VmFrame("inner", CurInstr.body),
            Insert(vars, CurInstr.param, Num(Top.lp.i)),
            Ev("LoopIterate"))

\* body_stack.pop(), accumulate
VmLoopBodyDone ==
    /\ InVm /\ Top.lp.ph = "body" /\ ret.k = "stack"
    /\ IF ret.s = << >>
       THEN Abort(Err("No result on stack (body)"), Ev("LoopErr"))
       ELSE Continue(SetTop([Top EXCEPT !.lp = LoopNext(@, CurInstr.op, Last(ret.s))]),
                     EnvAfterIteration(Top.fn, vars, CurInstr.param, Top.lp.old),
                     NoRet, Ev("LoopBody"))

\* a faulty variant of VmLoopExit: acc replaces the enclosing stack
VmLoopExitReplace ==
    /\ InVm /\ Top.lp.ph = "exit" /\ ret.k = "none"
    /\ Continue(SetTop([Top EXCEPT !.stack = <<Top.lp.acc>>, !.pc = @ + 1,
                                   !.lp = NoLoop]),
                EnvAfterLoop(Top.fn, vars, CurInstr.param), NoRet,
                LoopExitEvent(Top.fn, CurInstr.op, CurInstr.param,
                              CurInstr.body = <<LoadVar(CurInstr.param)>>, Top.lp,
                              Len(frames)))

\* the range is exhausted: push acc
VmLoopExit ==
    /\ InVm /\ Top.lp.ph = "exit" /\ ret.k = "none"
    /\ Continue(SetTop([Top EXCEPT !.stack = Append(@, Top.lp.acc), !.pc = @ + 1,
                                   !.lp = NoLoop]),
                EnvAfterLoop(Top.fn, vars, CurInstr.param), NoRet,
                LoopExitEvent(Top.fn, CurInstr.op, CurInstr.param,
                              CurInstr.body = <<LoadVar(CurInstr.param)>>, Top.lp,
                              Len(frames)))

\* run_bytecode_with_functions_inner is past its last instruction: Ok(()),
\* the caller reads the stack it passed
VmInnerReturn ==
    /\ InVm /\ Top.fn = "inner" /\ Top.lp.ph = "none" /\ ret.k = "none"
    /\ Top.pc > Len(Top.prog)
    /\ Continue(Popped, vars, RetStack(Top.stack), Ev("InnerReturn"))

\* a faulty variant of FinalResult: an empty stack gives 0.0
FinalResultZero(stack) ==
    IF stack = << >> THEN Ok(Num(0)) ELSE Ok(Last(stack))

\* stack.pop().ok_or("No result on stack")
FinalResult(stack) ==
    IF stack = << >> THEN Err("No result on stack") ELSE Ok(Last(stack))

\* run_bytecode_with_functions is past its last instruction
VmTopReturn ==
    /\ InVm /\ Top.fn = "top" /\ Top.lp.ph = "none" /\ ret.k = "none"
    /\ Top.pc > Len(Top.prog)
    /\ Abort(FinalResult(Top.stack), [op |-> "TopReturn", stack |-> Top.stack])

----------------------------------------------------------------------------
(* eval_expr: one activation per call, on the same call stack *)

InEval == phase \in {"run", "evalmain"} /\ frames # << >> /\ Top.k = "ev"
\* the activation is entered, or resumes after an inner call, at stage st
EvalAt(kinds, st) ==
    /\ InEval /\ Top.e.k \in kinds /\ Top.st = st
    /\ ret.k = (IF st \in {"start", "iter", "exit"} THEN "none" ELSE "val")

\* the value of the binary operation l op r
EvalBinaryValue(op, l, r) ==
    CASE op = "Plus" -> RAdd(l, r)
      [] op = "Minus" -> RSub(l, r)
      [] op = "Star" -> RMul(l, r)
      [] op = "Slash" -> RDiv(l, r)
      [] op = "Pow" -> RPow(l, r)

\* Number, Ident and FunctionDef: no inner call
EvalLeaf ==
    /\ EvalAt({"Number", "Ident", "FunctionDef"}, "start")
    /\ LET e == Top.e
       IN CASE e.k = "Number" -> Return(e.n, vars, Ev("EvalNumber"))
            [] e.k = "Ident" ->
                 IF e.name \in DOMAIN vars
                 THEN Return(vars[e.name], vars, Ev("EvalIdent"))
                 ELSE Abort(Err("Variable not found in function body"), Ev("EvalErr"))
            [] e.k = "FunctionDef" ->
                 Abort(Err("Nested function definitions not supported in body"),
                       Ev("EvalErr"))

\* Assign and Function: evaluate the one sub-expression first
EvalArgFirst ==
    /\ EvalAt({"Assign", "Function"}, "start")
    /\ Call([Top EXCEPT !.st = "arg"],
            EvFrame(IF Top.e.k = "Assign" THEN Top.e.expr ELSE Top.e.arg),
            vars, Ev("EvalArg"))

\* Assign stores the value; a special function is applied to it
EvalArgDone ==
    /\ EvalAt({"Assign", "Function"}, "arg")
    /\ LET func == Top.e.func
           val == ret.v
       IN CASE Top.e.k = "Assign" ->
                 Return(val, Insert(vars, Top.e.name, val), Ev("EvalAssign"))
            [] Top.e.k = "Function" /\ func = "LogBase" ->
                 Abort(Err("log base not supported in user function body"), Ev("EvalErr"))
            [] Top.e.k = "Function" /\ func = "RandInt" ->
                 Abort(Err("randint not supported in user function body"), Ev("EvalErr"))
            [] Top.e.k = "Function" /\ func = "Rand" ->
                 \E r \in RandUnit : Return(r, vars, Ev("EvalRand"))
            [] Top.e.k = "Function" /\ func = "Pow" ->
                 Return(val, vars, Ev("EvalFunction"))
            [] Top.e.k = "Function" /\ func \in UnaryOps ->
                 Return(UnaryValue(func, val), vars, Ev("EvalFunction"))

EvalBinaryOp ==
    /\ InEval /\ Top.e.k = "BinaryOp"
    /\ CASE Top.st = "start" ->
              ret.k = "none" /\ Call([Top EXCEPT !.st = "left"], EvFrame(Top.e.left),
                                     vars, Ev("EvalLeft"))
         [] Top.st = "left" ->
              ret.k = "val" /\ Call([Top EXCEPT !.st = "right", !.l = ret.v],
                                    EvFrame(Top.e.right), vars, Ev("EvalRight"))
         [] Top.st = "right" ->
              ret.k = "val" /\ Return(EvalBinaryValue(Top.e.op, Top.l, ret.v), vars,
                                      Ev("EvalBinaryOp"))

\* FunctionCall: the argument first
EvalCallArg ==
    /\ EvalAt({"FunctionCall"}, "start")
    /\ Call([Top EXCEPT !.st = "arg"], EvFrame(Top.e.arg), vars, Ev("EvalArg"))

\* FunctionCall: look the function up, bind the parameter, evaluate the body
EvalCallEnter ==
    /\ EvalAt({"FunctionCall"}, "arg")
    /\ LET name == Top.e.name
       IN IF name \notin DOMAIN user_functions
          THEN Abort(Err("User-defined function not found in body"), Ev("CallErr"))
          ELSE LET param == user_functions[name].param
                   body == user_functions[name].body
                   old == Get(vars, param)
               IN Call([Top EXCEPT !.st = "body", !.lp.old = old, !.lp.pre = old],
                       EvFrame(body), CallEnv(vars, param, ret.v),
                       [op |-> "CallEnter", by |-> "eval", name |-> name,
                        param |-> param, arg |-> ret.v, env |-> vars, body |-> body])

\* FunctionCall: restore the parameter, return the value of the body
EvalCallReturn ==
    /\ EvalAt({"FunctionCall"}, "body")
    /\ LET param == user_functions[Top.e.name].param
       IN Return(ret.v, Restore(vars, param, Top.lp.old),
                 [op |-> "CallReturn", by |-> "eval", name |-> Top.e.name,
                  param |-> param, pre |-> Top.lp.pre, result |-> ret.v,
                  depth |-> Len(frames)])

\* Sequence: the elements in order, the value of the last (0.0 when empty)
EvalSequence ==
    /\ InEval /\ Top.e.k = "Sequence"
    /\ CASE Top.st = "start" ->
              /\ ret.k = "none"
              /\ IF Top.idx > Len(Top.e.exprs)
                 THEN Return(IF Top.idx = 1 THEN Num(0) ELSE Top.l, vars,
                             Ev("EvalSequence"))
                 ELSE Call([Top EXCEPT !.st = "elem"], EvFrame(Top.e.exprs[Top.idx]),
                           vars, Ev("EvalElem"))
         [] Top.st = "elem" ->
              /\ ret.k = "val"
              /\ Continue(SetTop([Top EXCEPT !.st = "start", !.l = ret.v, !.idx = @ + 1]),
                          vars, NoRet, Ev("EvalElemDone"))

\* Sum / Product: from, then to, then the range
EvalLoopBounds ==
    /\ InEval /\ Top.e.k \in {"Sum", "Product"}
    /\ CASE Top.st = "start" ->
              ret.k = "none" /\ Call([Top EXCEPT !.st = "from",
                                                 !.lp.pre = Get(vars, Top.e.param)],
                                     EvFrame(Top.e.from), vars, Ev("LoopEnter"))
         [] Top.st = "from" ->
              ret.k = "val" /\ Call([Top EXCEPT !.st = "to", !.lp.from_val = ret.v],
                                    EvFrame(Top.e.to), vars, Ev("LoopFrom"))
         [] Top.st = "to" ->
              /\ ret.k = "val"
              /\ LET lp == LoopReady(Top.lp, Top.e.k, Top.lp.from_val, ret.v)
                 IN Continue(SetTop([Top EXCEPT !.st = lp.ph, !.lp = lp]), vars, NoRet,
                             Ev("LoopTo"))
         [] OTHER -> FALSE

\* Sum / Product: one iteration starts
EvalLoopIterate ==
    /\ EvalAt({"Sum", "Product"}, "iter")
    /\ Len(Top.lp.idxs) < MaxIter
    /\ Call([Top EXCEPT !.st = "body", !.lp.old = Get(vars, Top.e.param),
                        !.lp.idxs = Append(@, Top.lp.i)],
            EvFrame(Top.e.body), Insert(vars, Top.e.param, Num(Top.lp.i)),
            Ev("LoopIterate"))

\* Sum / Product: accumulate, restore the parameter
EvalLoopBodyDone ==
    /\ EvalAt({"Sum", "Product"}, "body")
    /\ LET lp == LoopNext(Top.lp, Top.e.k, ret.v)
       IN Continue(SetTop([Top EXCEPT !.st = lp.ph, !.lp = lp]),
                   EnvAfterIteration("eval", vars, Top.e.param, Top.lp.old),
                   NoRet, Ev("LoopBody"))

\* Sum / Product: Ok(acc)
EvalLoopExit ==
    /\ EvalAt({"Sum", "Product"}, "exit")
    /\ Return(Top.lp.acc, EnvAfterLoop("eval", vars, Top.e.param),
              LoopExitEvent("eval", Top.e.k, Top.e.param,
                            Top.e.body = Ident(Top.e.param), Top.lp, Len(frames)))

----------------------------------------------------------------------------
(* Tokens (lexer.rs) and the parser (parser.rs).  Positions count from 1. *)

TNumber(n) == [t |-> "Number", n |-> n]
TOperator(op) == [t |-> "Operator", op |-> op]
TFunction(func) == [t |-> "Function", func |-> func]
TIdent(name) == [t |-> "Ident", name |-> name]
Tok(t) == [t |-> t]

\* tokens.get(pos)
TokAt(tokens, pos) == IF pos \in 1..Len(tokens) THEN tokens[pos] ELSE Tok("None")
IsTok(tokens, pos, t) == TokAt(tokens, pos).t = t
IsIdentTok(tokens, pos, name) ==
    IsTok(tokens, pos, "Ident") /\ TokAt(tokens, pos).name = name
IsOpTok(tokens, pos, ops) ==
    IsTok(tokens, pos, "Operator") /\ TokAt(tokens, pos).op \in ops
IsFactTok(tokens, pos) ==
    IsTok(tokens, pos, "Function") /\ TokAt(tokens, pos).func = "Fact"

\* (expr, next position), or the panic that aborts the run
Parsed(e, pos) == [ok |-> TRUE, e |-> e, pos |-> pos]
ParsePanic(msg) == [ok |-> FALSE, msg |-> msg]

\* the ? operator on a parse result: a panic propagates, a value goes on
Then(r, K(_)) == IF r.ok THEN K(r) ELSE r

RECURSIVE parse_expr(_, _), parse_expr_loop(_, _, _), parse_term(_, _),
          parse_term_loop(_, _, _), parse_power(_, _), parse_power_loop(_, _, _),
          parse_factor(_, _), parse_postfix(_, _, _), parse_args(_, _, _),
          parse_sum_product(_, _), parse_token(_, _)

\* while let Some(Token::Comma) = tokens.get(next_pos) { args.push(parse_expr) }
parse_args(tokens, args, next_pos) ==
    IF IsTok(tokens, next_pos, "Comma")
    THEN Then(parse_expr(tokens, next_pos + 1),
              LAMBDA r: parse_args(tokens, Append(args, r.e), r.pos))
    ELSE [ok |-> TRUE, args |-> args, pos |-> next_pos]

\* a faulty variant of parse_sum_product: any identifier stands for `from`
parse_sum_product_any_from(tokens, pos) ==
    IF ~(IsTok(tokens, pos, "Sum") \/ IsTok(tokens, pos, "Product"))
       \/ ~IsTok(tokens, pos + 1, "LParen")
       \/ ~IsTok(tokens, pos + 2, "Ident")
    THEN None
    ELSE Then(parse_expr(tokens, pos + 3), LAMBDA from:
         IF ~IsTok(tokens, from.pos, "Comma")
            \/ ~IsIdentTok(tokens, from.pos + 1, "to") THEN None
         ELSE Then(parse_expr(tokens, from.pos + 2), LAMBDA to:
         IF ~IsTok(tokens, to.pos, "Comma")
            \/ ~IsIdentTok(tokens, to.pos + 1, "para")
            \/ ~IsTok(tokens, to.pos + 2, "Ident")
            \/ ~IsTok(tokens, to.pos + 3, "Comma") THEN None
         ELSE Then(parse_expr(tokens, to.pos + 4), LAMBDA body:
         IF ~IsTok(tokens, body.pos, "RParen") THEN None
         ELSE [some |-> TRUE, ok |-> TRUE,
               e |-> IF IsTok(tokens, pos, "Sum")
                     THEN SumExpr(from.e, to.e, TokAt(tokens, to.pos + 2).name, body.e)
                     ELSE ProductExpr(from.e, to.e, TokAt(tokens, to.pos + 2).name,
                                      body.e),
               pos |-> body.pos + 1])))

\* sum(from: a, to: b, para: name, expr): Some((expr, next)), None, or a
\* panic of an inner parse_expr
parse_sum_product(tokens, pos) ==
    IF ~(IsTok(tokens, pos, "Sum") \/ IsTok(tokens, pos, "Product"))
       \/ ~IsTok(tokens, pos + 1, "LParen")
       \/ ~IsIdentTok(tokens, pos + 2, "from")
    THEN None
    ELSE Then(parse_expr(tokens, pos + 3), LAMBDA from:
         IF ~IsTok(tokens, from.pos, "Comma")
            \/ ~IsIdentTok(tokens, from.pos + 1, "to") THEN None
         ELSE Then(parse_expr(tokens, from.pos + 2), LAMBDA to:
         IF ~IsTok(tokens, to.pos, "Comma")
            \/ ~IsIdentTok(tokens, to.pos + 1, "para")
            \/ ~IsTok(tokens, to.pos + 2, "Ident")
            \/ ~IsTok(tokens, to.pos + 3, "Comma") THEN None
         ELSE Then(parse_expr(tokens, to.pos + 4), LAMBDA body:
         IF ~IsTok(tokens, body.pos, "RParen") THEN None
         ELSE [some |-> TRUE, ok |-> TRUE,
               e |-> IF IsTok(tokens, pos, "Sum")
                     THEN SumExpr(from.e, to.e, TokAt(tokens, to.pos + 2).name, body.e)
                     ELSE ProductExpr(from.e, to.e, TokAt(tokens, to.pos + 2).name,
                                      body.e),
               pos |-> body.pos + 1])))

parse_expr(tokens, pos) ==
    Then(parse_term(tokens, pos),
         LAMBDA left: parse_expr_loop(tokens, left.e, left.pos))
parse_expr_loop(tokens, left, pos) ==
    IF IsOpTok(tokens, pos, {"Plus", "Minus"})
    THEN Then(parse_term(tokens, pos + 1),
              LAMBDA right: parse_expr_loop(
                  tokens, BinaryOp(left, tokens[pos].op, right.e), right.pos))
    ELSE Parsed(left, pos)

parse_term(tokens, pos) ==
    Then(parse_power(tokens, pos),
         LAMBDA left: parse_term_loop(tokens, left.e, left.pos))
parse_term_loop(tokens, left, pos) ==
    IF IsOpTok(tokens, pos, {"Star", "Slash"})
    THEN Then(parse_power(tokens, pos + 1),
              LAMBDA right: parse_term_loop(
                  tokens, BinaryOp(left, tokens[pos].op, right.e), right.pos))
    ELSE Parsed(left, pos)

RECURSIVE parse_power_loop_left(_, _, _)
\* the right operand of ^ parsed as a factor: a left-associative ^
parse_power_loop_left(tokens, left, pos) ==
    IF IsOpTok(tokens, pos, {"Pow"})
    THEN Then(parse_factor(tokens, pos + 1),
              LAMBDA right: parse_power_loop_left(
                  tokens, BinaryOp(left, "Pow", right.e), right.pos))
    ELSE Parsed(left, pos)

parse_power(tokens, pos) ==
    Then(parse_factor(tokens, pos),
         LAMBDA left: parse_power_loop(tokens, left.e, left.pos))
parse_power_loop(tokens, left, pos) ==
    IF IsOpTok(tokens, pos, {"Pow"})
    THEN Then(parse_power(tokens, pos + 1),
              LAMBDA right: parse_power_loop(
                  tokens, BinaryOp(left, "Pow", right.e), right.pos))
    ELSE Parsed(left, pos)

\* postfix factorial: expr!
parse_postfix(tokens, expr, pos) ==
    IF IsFactTok(tokens, pos)
    THEN parse_postfix(tokens, Function("Fact", expr), pos + 1)
    ELSE Parsed(expr, pos)

\* name(args) / func(args): the first argument, then the comma-separated rest
parse_call_args(tokens, pos) ==
    Then(parse_expr(tokens, pos), LAMBDA arg: parse_args(tokens, <<arg.e>>, arg.pos))

\* match &tokens[pos] of parse_factor
parse_token(tokens, pos) ==
    LET tok == TokAt(tokens, pos)
    IN CASE tok.t = "None" -> ParsePanic("index out of bounds")
         [] tok.t = "Operator" /\ tok.op = "Minus" ->
              Then(parse_factor(tokens, pos + 1), LAMBDA r:
                   parse_postfix(tokens, BinaryOp(Number(Num(0)), "Minus", r.e), r.pos))
         [] tok.t = "Pipe" ->
              Then(parse_expr(tokens, pos + 1), LAMBDA inner:
                   IF IsTok(tokens, inner.pos, "Pipe")
                   THEN parse_postfix(tokens, Function("Abs", inner.e), inner.pos + 1)
                   ELSE ParsePanic("Expected closing | for absolute value"))
         [] tok.t = "Number" -> parse_postfix(tokens, Number(tok.n), pos + 1)
         [] tok.t = "Ident" /\ IsTok(tokens, pos + 1, "LParen") ->
              Then(parse_call_args(tokens, pos + 2), LAMBDA rest:
                   IF IsTok(tokens, rest.pos, "RParen")
                   THEN parse_postfix(
                            tokens,
                            FunctionCall(tok.name,
                                         IF Len(rest.args) = 1 THEN rest.args[1]
                                         ELSE Sequence(rest.args)),
                            rest.pos + 1)
                   ELSE ParsePanic("Expected closing parenthesis after function call arguments"))
         [] tok.t = "Ident" -> parse_postfix(tokens, Ident(tok.name), pos + 1)
         [] tok.t = "Function" /\ ~IsTok(tokens, pos + 1, "LParen") ->
              ParsePanic("Expected opening parenthesis after function name")
         [] tok.t = "Function" /\ IsTok(tokens, pos + 2, "RParen") ->
              parse_postfix(tokens, Function(tok.func, Sequence(<< >>)), pos + 3)
         [] tok.t = "Function" ->
              Then(parse_call_args(tokens, pos + 2), LAMBDA rest:
                   IF IsTok(tokens, rest.pos, "RParen")
                   THEN parse_postfix(tokens, Function(tok.func, Sequence(rest.args)),
                                      rest.pos + 1)
                   ELSE ParsePanic("Expected closing parenthesis after function arguments"))
         [] tok.t = "LParen" ->
              Then(parse_expr(tokens, pos + 1), LAMBDA r:
                   IF IsTok(tokens, r.pos, "RParen")
                   THEN parse_postfix(tokens, r.e, r.pos + 1)
                   ELSE ParsePanic("Expected closing parenthesis"))
         [] tok.t = "Operator" -> ParsePanic("Operator token in invalid position")
         [] OTHER -> ParsePanic("Unexpected token")

\* if let Some((expr, next)) = parse_sum_product { return } else match token
SumProductOr(sumprod, tokens, pos) ==
    IF sumprod = None THEN parse_token(tokens, pos)
    ELSE IF sumprod.ok THEN Parsed(sumprod.e, sumprod.pos)
    ELSE sumprod

parse_factor(tokens, pos) ==
    SumProductOr(parse_sum_product(tokens, pos), tokens, pos)

\* a line of the form  def name ( param ) =  ...
IsDefLine(tokens, pos) ==
    /\ IsTok(tokens, pos, "Def")
    /\ IsTok(tokens, pos + 1, "Ident")
    /\ IsTok(tokens, pos + 2, "LParen")
    /\ IsTok(tokens, pos + 3, "Ident")
    /\ IsTok(tokens, pos + 4, "RParen")
    /\ IsTok(tokens, pos + 5, "Assign")

\* a statement: a definition, an assignment `var name = expr`, or an expression
parse_statement(tokens, pos) ==
    IF IsDefLine(tokens, pos)
    THEN Then(parse_expr(tokens, pos + 6), LAMBDA body:
              Parsed(FunctionDef(tokens[pos + 1].name, tokens[pos + 3].name, body.e),
                     body.pos))
    ELSE IF IsTok(tokens, pos, "Var") /\ IsTok(tokens, pos + 1, "Ident")
            /\ IsTok(tokens, pos + 2, "Assign")
    THEN Then(parse_expr(tokens, pos + 3), LAMBDA expr:
              Parsed(Assign(tokens[pos + 1].name, expr.e), expr.pos))
    ELSE parse_expr(tokens, pos)

RECURSIVE parse_lines(_, _, _, _)
\* the loop of parse over the lines from line i on
parse_lines(lines, i, exprs, functions) ==
    IF i > Len(lines) THEN [ok |-> TRUE, exprs |-> exprs, functions |-> functions]
    ELSE IF lines[i] = << >> THEN parse_lines(lines, i + 1, exprs, functions)
    ELSE IF IsDefLine(lines[i], 1)
    THEN Then(parse_expr(lines[i], 7), LAMBDA body:
              parse_lines(lines, i + 1, exprs,
                          Insert(functions, lines[i][2].name,
                                 [param |-> lines[i][4].name, body |-> body.e])))
    ELSE IF IsTok(lines[i], 1, "Def") THEN parse_lines(lines, i + 1, exprs, functions)
    ELSE Then(parse_statement(lines[i], 1), LAMBDA st:
              IF st.pos <= Len(lines[i]) THEN ParsePanic("Unexpected token")
              ELSE parse_lines(lines, i + 1, Append(exprs, st.e), functions))

\* the statements always wrapped in one Sequence
parseAsSequence(lines) ==
    Then(parse_lines(lines, 1, << >>, EmptyEnv), LAMBDA r:
         [ok |-> TRUE, main_expr |-> Sequence(r.exprs), user_functions |-> r.functions])

\* parse: (main expression, user function table), or a panic
parse(lines) ==
    Then(parse_lines(lines, 1, << >>, EmptyEnv), LAMBDA r:
         [ok |-> TRUE,
          main_expr |-> IF Len(r.exprs) = 1 THEN r.exprs[1] ELSE Sequence(r.exprs),
          user_functions |-> r.functions])

----------------------------------------------------------------------------
(* main (main.rs): parse, compile, execute *)

\* tokenize + parse of the source file
Parse ==
    /\ phase = "parse"
    /\ LET r == parse(input.lines)
       IN IF ~r.ok
          THEN /\ outcome' = Fatal(r.msg)
               /\ phase' = "done"
               /\ last' = Ev("ParsePanic")
               /\ UNCHANGED <<main_expr, user_functions>>
          ELSE /\ main_expr' = r.main_expr
               /\ user_functions' = r.user_functions
               /\ phase' = "compile"
               /\ last' = Ev("Parse")
               /\ UNCHANGED outcome
    /\ UNCHANGED <<input, program, frames, vars, ret, eval_outcome, token_lines,
                   encoded,
                   top_run>>

\* compile of the main expression, then execute on the program
CompileMain ==
    /\ phase = "compile" /\ input.mode = "source"
    /\ IF CompilePanics(main_expr)
       THEN /\ outcome' = Fatal("compile panic")
            /\ phase' = "done"
            /\ last' = Ev("CompilePanic")
            /\ UNCHANGED <<program, frames>>
       ELSE /\ program' = Compile(main_expr)
            /\ frames' = <<VmFrame("top", Compile(main_expr))>>
            /\ phase' = "run"
            /\ last' = Ev("Compile")
            /\ UNCHANGED outcome
    /\ UNCHANGED <<input, main_expr, user_functions, vars, ret, eval_outcome,
                   token_lines, encoded,
                   top_run>>

\* a compiled file is run as it is, with the function table of the source
RunCompiled ==
    /\ phase = "compile" /\ input.mode = "compiled"
    /\ program' = input.program
    /\ frames' = <<VmFrame("top", input.program)>>
    /\ phase' = "run"
    /\ last' = Ev("Decode")
    /\ UNCHANGED <<input, main_expr, user_functions, vars, ret, outcome, eval_outcome,
                   token_lines, encoded,
                   top_run>>

----------------------------------------------------------------------------
(* eval_expr applied to the main expression itself, from an empty
   environment, once execute has ended: the other side of the agreement of
   the compiler and VM with the evaluator *)

StartEvalMain ==
    /\ phase = "done" /\ input.mode = "source" /\ last.op # "ParsePanic"
    /\ phase' = "evalmain"
    /\ frames' = <<EvFrame(main_expr)>>
    /\ vars' = EmptyEnv
    /\ ret' = NoRet
    /\ last' = Ev("StartEvalMain")
    /\ UNCHANGED <<outcome, eval_outcome, static>>

\* the outermost eval_expr activation has returned Ok(v)
EvalMainReturn ==
    /\ phase = "evalmain" /\ frames = << >> /\ ret.k = "val"
    /\ eval_outcome' = Ok(ret.v)
    /\ phase' = "evaldone"
    /\ ret' = NoRet
    /\ last' = Ev("EvalMainReturn")
    /\ UNCHANGED <<outcome, frames, vars, static>>

----------------------------------------------------------------------------
(* The .mthc file: a Program written by bincode::encode_to_vec and read back
   by bincode::decode_from_slice under config::standard(): little endian,
   variable-length integers, an enum as its variant index followed by its
   fields in declaration order, a Vec or String as its length followed by its
   elements, a Box as its content. Bytes are numbers in 0..255. *)

\* the variants of Bytecode in declaration order; the index of a variant is
\* its position here less one
Bytecode ==
    <<"PushNumber", "Add", "Sub", "Mul", "Div", "Sin", "Cos", "Tan", "Cot",
      "Sec", "Csc", "Sinh", "Cosh", "Tanh", "Asinh", "Acosh", "Atanh", "Exp",
      "Log", "Log10", "Log2", "Sqrt", "Abs", "Asin", "Acos", "Atan", "Acot",
      "Asec", "Acsc", "Pow", "Fact", "LogBase", "Floor", "Rand", "RandInt",
      "StoreVar", "LoadVar", "CallUserFunction", "SumLoop", "ProductLoop">>
VariantIndex(op) == (CHOOSE k \in 1..Len(Bytecode) : Bytecode[k] = op) - 1

NameVariants == {"StoreVar", "LoadVar", "CallUserFunction"}
LoopVariants == {"SumLoop", "ProductLoop"}

\* the characters of names and their codes (ASCII, which is their UTF-8)
Letters ==
    <<"a", "b", "c", "d", "e", "f", "g", "h", "i", "j", "k", "l", "m", "n",
      "o", "p", "q", "r", "s", "t", "u", "v", "w", "x", "y", "z">>
Digits == <<"0", "1", "2", "3", "4", "5", "6", "7", "8", "9">>
Capitals ==
    <<"A", "B", "C", "D", "E", "F", "G", "H", "I", "J", "K", "L", "M", "N",
      "O", "P", "Q", "R", "S", "T", "U", "V", "W", "X", "Y", "Z">>
IsCapital(c) == \E k \in 1..Len(Capitals) : Capitals[k] = c
IsLetter(c) == \E k \in 1..Len(Letters) : Letters[k] = c
IsDigit(c) == \E k \in 1..Len(Digits) : Digits[k] = c
DigitValue(c) == (CHOOSE k \in 1..Len(Digits) : Digits[k] = c) - 1
Utf8(c) ==
    IF IsLetter(c) THEN 96 + (CHOOSE k \in 1..Len(Letters) : Letters[k] = c)
    ELSE IF IsCapital(c)
    THEN 64 + (CHOOSE k \in 1..Len(Capitals) : Capitals[k] = c)
    ELSE IF IsDigit(c) THEN 48 + DigitValue(c)
    ELSE 95
FromUtf8(b) ==
    IF b \in 97..122 THEN Letters[b - 96]
    ELSE IF b \in 65..90 THEN Capitals[b - 64]
    ELSE IF b \in 48..57 THEN Digits[b - 47]
    ELSE "_"

\* a String is the concatenation of its characters
RECURSIVE Join(_)
Join(cs) == IF cs = << >> THEN "" ELSE cs[1] \o Join(Tail(cs))

\* the names of the model, spelled out
Spellings ==
    {<<"x">>, <<"y">>, <<"i">>, <<"j">>, <<"f">>, <<"g">>, <<"h">>, <<"c">>,
     <<"s", "q">>, <<"l", "g">>, <<"r", "i">>, <<"n", "f">>,
     <<"t", "m", "p">>, <<"_", "t", "m", "p">>, <<"a", "_", "b">>,
     <<"a", "s", "i", "n">>, <<"A", "S", "I", "N">>, <<"A", "s", "i", "n">>,
     <<"x", "1">>}
Spell(name) == CHOOSE cs \in Spellings : Join(cs) = name

\* an f64 is its eight bytes, least significant first: 52 bits of mantissa,
\* 11 of exponent biased by 1023, the sign.  The numbers of the encoded
\* programs have at most 12 bits of mantissa (4096 = 2^12), so the low five
\* bytes are zero.
Pow2R(e) == IF e >= 0 THEN Num(2 ^ e) ELSE <<1, 2 ^ (-e)>>
Exp2(a) == CHOOSE e \in -20..20 : RLe(Pow2R(e), a) /\ RLt(a, Pow2R(e + 1))
F64Finite(sign, e, m) ==
    <<0, 0, 0, 0, 0, m % 256, ((e + 1023) % 16) * 16 + m \div 256,
      sign * 128 + (e + 1023) \div 16>>
to_le_bytes(x) ==
    CASE x = NaN -> <<0, 0, 0, 0, 0, 0, 248, 127>>
      [] x = PosInf -> <<0, 0, 0, 0, 0, 0, 240, 127>>
      [] x = NegInf -> <<0, 0, 0, 0, 0, 0, 240, 255>>
      [] x = Num(0) -> <<0, 0, 0, 0, 0, 0, 0, 0>>
      [] OTHER ->
          F64Finite(IF x[1] < 0 THEN 1 ELSE 0, Exp2(RAbs(x)),
                    RFloor(RMul(RSub(RDiv(RAbs(x), Pow2R(Exp2(RAbs(x)))),
                                     Num(1)),
                                Num(4096)))[1])
F64Value(sign, e, m) ==
    IF e = 2047
    THEN (IF m # 0 THEN NaN ELSE IF sign = 1 THEN NegInf ELSE PosInf)
    ELSE IF e = 0 THEN Num(0)
    ELSE RMul(Num((1 - 2 * sign) * (4096 + m)),
              Pow2R(e - 1023 - 12))
from_le_bytes(b) ==
    F64Value(b[8] \div 128, (b[8] % 128) * 16 + b[7] \div 16,
             (b[7] % 16) * 256 + b[6])

\* varint: a value below 251 is one byte, a value below 2^16 is the marker
\* 251 and two bytes, least significant first
varint_encode(n) == IF n < 251 THEN <<n>> ELSE <<251, n % 256, n \div 256>>

EncodeString(name) ==
    varint_encode(Len(Spell(name)))
        \o [k \in 1..Len(Spell(name)) |-> Utf8(Spell(name)[k])]

RECURSIVE EncodeProgram(_), EncodeBytecode(_), EncodeElements(_, _, _)
EncodeBytecode(ins) ==
    varint_encode(VariantIndex(ins.op)) \o
    (CASE ins.op = "PushNumber" -> to_le_bytes(ins.n)
       [] ins.op \in NameVariants -> EncodeString(ins.name)
       [] ins.op \in LoopVariants ->
           EncodeProgram(ins.from) \o EncodeProgram(ins.to)
               \o EncodeString(ins.param) \o EncodeProgram(ins.body)
       [] OTHER -> << >>)
\* the elements lo..hi of pr one after the other
EncodeElements(pr, lo, hi) ==
    IF lo > hi THEN << >>
    ELSE IF lo = hi THEN EncodeBytecode(pr[lo])
    ELSE EncodeElements(pr, lo, (lo + hi) \div 2)
             \o EncodeElements(pr, (lo + hi) \div 2 + 1, hi)
EncodeProgram(pr) == varint_encode(Len(pr)) \o EncodeElements(pr, 1, Len(pr))

encode_to_vec(pr) == EncodeProgram(pr)

\* decoding reads from a position of the slice and gives the value and the
\* position after it, or fails
Decoded(v, pos) == [ok |-> TRUE, v |-> v, pos |-> pos]
DecodeError == [ok |-> FALSE]
Need(bs, pos, n, K(_)) == IF pos + n - 1 > Len(bs) THEN DecodeError ELSE K(pos)

varint_decode(bs, pos) ==
    Need(bs, pos, 1, LAMBDA p :
        IF bs[p] < 251 THEN Decoded(bs[p], p + 1)
        ELSE IF bs[p] = 251
             THEN Need(bs, p, 3, LAMBDA q :
                      Decoded(bs[q + 1] + 256 * bs[q + 2], q + 3))
             ELSE DecodeError)

DecodeF64(bs, pos) ==
    Need(bs, pos, 8, LAMBDA p :
        Decoded(from_le_bytes(SubSeq(bs, p, p + 7)), p + 8))

DecodeString(bs, pos) ==
    Then(varint_decode(bs, pos), LAMBDA n :
        Need(bs, n.pos, n.v, LAMBDA p :
            Decoded(Join([k \in 1..n.v |-> FromUtf8(bs[p + k - 1])]),
                    p + n.v)))

RECURSIVE DecodeProgram(_, _), DecodeBytecode(_, _), DecodeElements(_, _, _, _)
\* a faulty variant of DecodeLoop: the fields are read in the order from, to,
\* body, param
DecodeLoopParamLast(op, bs, pos) ==
    Then(DecodeProgram(bs, pos), LAMBDA from :
    Then(DecodeProgram(bs, from.pos), LAMBDA to :
    Then(DecodeProgram(bs, to.pos), LAMBDA body :
    Then(DecodeString(bs, body.pos), LAMBDA param :
        Decoded([op |-> op, from |-> from.v, to |-> to.v,
                 param |-> param.v, body |-> body.v], param.pos)))))
\* the fields of a loop variant in declaration order: from, to, param, body
DecodeLoop(op, bs, pos) ==
    Then(DecodeProgram(bs, pos), LAMBDA from :
    Then(DecodeProgram(bs, from.pos), LAMBDA to :
    Then(DecodeString(bs, to.pos), LAMBDA param :
    Then(DecodeProgram(bs, param.pos), LAMBDA body :
        Decoded([op |-> op, from |-> from.v, to |-> to.v,
                 param |-> param.v, body |-> body.v], body.pos)))))
DecodeFields(op, bs, pos) ==
    CASE op = "PushNumber" ->
            Then(DecodeF64(bs, pos), LAMBDA n :
                Decoded(PushNumber(n.v), n.pos))
      [] op \in NameVariants ->
            Then(DecodeString(bs, pos), LAMBDA name :
                Decoded([op |-> op, name |-> name.v], name.pos))
      [] op \in LoopVariants -> DecodeLoop(op, bs, pos)
      [] OTHER -> Decoded(Instr(op), pos)
DecodeBytecode(bs, pos) ==
    Then(varint_decode(bs, pos), LAMBDA ix :
        IF ix.v >= Len(Bytecode) THEN DecodeError
        ELSE DecodeFields(Bytecode[ix.v + 1], bs, ix.pos))
DecodeElements(bs, pos, n, acc) ==
    IF n = 0 THEN Decoded(acc, pos)
    ELSE Then(DecodeBytecode(bs, pos), LAMBDA ins :
             DecodeElements(bs, ins.pos, n - 1, Append(acc, ins.v)))
DecodeProgram(bs, pos) ==
    Then(varint_decode(bs, pos), LAMBDA n :
        DecodeElements(bs, n.pos, n.v, << >>))

decode_from_slice(bs) == DecodeProgram(bs, 1)

-----------------------------------------------------------------------------
(* tokenize (lexer.rs).  A source text is a sequence of lines and a line a
   sequence of characters, each a string of length one. *)

\* a faulty variant of is_alphabetic: the underscore counts as a letter
is_alphabetic_or_underscore(c) == IsLetter(c) \/ IsCapital(c) \/ c = "_"
is_alphabetic(c) == IsLetter(c) \/ IsCapital(c)
is_alphanumeric(c) == is_alphabetic(c) \/ IsDigit(c)
is_whitespace(c) == c \in {" ", "\t"}
to_ascii_lowercase(c) ==
    IF IsCapital(c) THEN Letters[CHOOSE k \in 1..Len(Capitals) : Capitals[k] = c]
    ELSE c
to_ascii_uppercase(c) ==
    IF IsLetter(c) THEN Capitals[CHOOSE k \in 1..Len(Letters) : Letters[k] = c]
    ELSE c
Lowered(cs) == [k \in 1..Len(cs) |-> to_ascii_lowercase(cs[k])]

\* the keyword table of the identifier branch, on the lower-cased name
Keyword(name) ==
    CASE name = "sum" -> Tok("Sum")
      [] name = "product" -> Tok("Product")
      [] name = "def" -> Tok("Def")
      [] name = "end" -> Tok("EndDef")
      [] name = "var" -> Tok("Var")
      [] name = "sin" -> TFunction("Sin")
      [] name = "cos" -> TFunction("Cos")
      [] name = "tan" -> TFunction("Tan")
      [] name = "cot" -> TFunction("Cot")
      [] name = "sec" -> TFunction("Sec")
      [] name = "csc" -> TFunction("Csc")
      [] name = "sinh" -> TFunction("Sinh")
      [] name = "cosh" -> TFunction("Cosh")
      [] name = "tanh" -> TFunction("Tanh")
      [] name = "asinh" -> TFunction("Asinh")
      [] name = "acosh" -> TFunction("Acosh")
      [] name = "atanh" -> TFunction("Atanh")
      [] name = "exp" -> TFunction("Exp")
      [] name = "log" -> TFunction("Log")
      [] name = "log10" -> TFunction("Log10")
      [] name = "log2" -> TFunction("Log2")
      [] name = "sqrt" -> TFunction("Sqrt")
      [] name = "abs" -> TFunction("Abs")
      [] name = "acos" -> TFunction("Acos")
      [] name = "atan" -> TFunction("Atan")
      [] name = "acot" -> TFunction("Acot")
      [] name = "asec" -> TFunction("Asec")
      [] name = "acsc" -> TFunction("Acsc")
      [] name = "pow" -> TFunction("Pow")
      [] name = "floor" -> TFunction("Floor")
      [] name = "rand" -> TFunction("Rand")
      [] name = "randint" -> TFunction("RandInt")
      [] OTHER -> Tok("None")
\* the token of an identifier run: its keyword, or Ident of the run as written
IdentToken(cs) ==
    IF Keyword(Join(Lowered(cs))) # Tok("None") THEN Keyword(Join(Lowered(cs)))
    ELSE TIdent(Join(cs))

\* the first position from pos on that is past the run of digits and dots
RECURSIVE NumberEnd(_, _)
NumberEnd(cs, pos) ==
    IF pos <= Len(cs) /\ (IsDigit(cs[pos]) \/ cs[pos] = ".")
    THEN NumberEnd(cs, pos + 1) ELSE pos
\* ... and past the run of letters, digits and underscores
RECURSIVE IdentEnd(_, _)
IdentEnd(cs, pos) ==
    IF pos <= Len(cs) /\ (is_alphanumeric(cs[pos]) \/ cs[pos] = "_")
    THEN IdentEnd(cs, pos + 1) ELSE pos

\* str::parse::<f64> on a run of digits and dots: at most one dot and at
\* least one digit, the value in decimal
DotCount(cs) == Cardinality({k \in 1..Len(cs) : cs[k] = "."})
DigitsOf(cs) == SelectSeq(cs, IsDigit)
RECURSIVE DecimalValue(_, _)
DecimalValue(ds, acc) ==
    IF ds = << >> THEN acc
    ELSE DecimalValue(Tail(ds), 10 * acc + DigitValue(ds[1]))
FractionDigits(cs) ==
    IF DotCount(cs) = 0 THEN 0
    ELSE Len(cs) - (CHOOSE k \in 1..Len(cs) : cs[k] = ".")
parse_f64(cs) ==
    IF DotCount(cs) > 1 \/ DigitsOf(cs) = << >> THEN None
    ELSE Some(Norm(DecimalValue(DigitsOf(cs), 0), 10 ^ FractionDigits(cs)))

\* the single-character tokens
Punctuation(c) ==
    CASE c = "+" -> TOperator("Plus")
      [] c = "-" -> TOperator("Minus")
      [] c = "*" -> TOperator("Star")
      [] c = "/" -> TOperator("Slash")
      [] c = "^" -> TOperator("Pow")
      [] c = "!" -> TFunction("Fact")
      [] c = "(" -> Tok("LParen")
      [] c = ")" -> Tok("RParen")
      [] c = "|" -> Tok("Pipe")
      [] c = "," -> Tok("Comma")
      [] OTHER -> Tok("None")

\* the tokens of one line, from pos on
RECURSIVE TokenizeLine(_, _, _)
TokenizeLine(cs, pos, acc) ==
    IF pos > Len(cs) THEN acc
    ELSE IF IsDigit(cs[pos]) \/ cs[pos] = "." THEN
        TokenizeLine(cs, NumberEnd(cs, pos),
            IF parse_f64(SubSeq(cs, pos, NumberEnd(cs, pos) - 1)).some
            THEN Append(acc, TNumber(
                     parse_f64(SubSeq(cs, pos, NumberEnd(cs, pos) - 1)).v))
            ELSE acc)
    ELSE IF Punctuation(cs[pos]) # Tok("None") THEN
        TokenizeLine(cs, pos + 1, Append(acc, Punctuation(cs[pos])))
    ELSE IF cs[pos] = "=" THEN
        (IF pos < Len(cs) /\ cs[pos + 1] = ">"
         THEN TokenizeLine(cs, pos + 2, Append(acc, Tok("Arrow")))
         ELSE TokenizeLine(cs, pos + 1, Append(acc, Tok("Assign"))))
    ELSE IF is_alphabetic(cs[pos]) THEN
        TokenizeLine(cs, IdentEnd(cs, pos),
            Append(acc, IdentToken(SubSeq(cs, pos, IdentEnd(cs, pos) - 1))))
    ELSE TokenizeLine(cs, pos + 1, acc)

\* line.trim(): the line without its leading white space
RECURSIVE TrimStart(_)
TrimStart(cs) ==
    IF cs # << >> /\ is_whitespace(cs[1]) THEN TrimStart(Tail(cs)) ELSE cs
IsSourceLine(cs) == TrimStart(cs) # << >> /\ TrimStart(cs)[1] # "#"
NonEmpty(ts) == ts # << >>

RECURSIVE TokenizeLines(_)
TokenizeLines(text) ==
    IF text = << >> THEN << >>
    ELSE (IF IsSourceLine(text[1])
          THEN <<TokenizeLine(text[1], 1, << >>)>> ELSE << >>)
         \o TokenizeLines(Tail(text))
tokenize(text) == SelectSeq(TokenizeLines(text), NonEmpty)

-----------------------------------------------------------------------------
(* The inputs of the runs: token lines as tokenize gives them *)

\* the statements per source, and the literals, of the generated sources
MaxStmts == 2

L(n) == TNumber(Num(n))
Id(name) == TIdent(name)
Op(op) == TOperator(op)
LP == Tok("LParen")
RP == Tok("RParen")
CM == Tok("Comma")
EQ == Tok("Assign")

\* sum(from: a, to: b, para: p, body) / product(...) as tokens (the colons
\* are dropped by tokenize)
LoopToks(kw, a, b, p, body) ==
    <<Tok(kw), LP, Id("from")>> \o a \o <<CM, Id("to")>> \o b
        \o <<CM, Id("para"), Id(p), CM>> \o body \o <<RP>>
\* name(arg)
CallToks(name, arg) == <<Id(name), LP>> \o arg \o <<RP>>
\* var name = expr
VarToks(name, expr) == <<Tok("Var"), Id(name), EQ>> \o expr
\* def name(param) = body
DefToks(name, param, body) == <<Tok("Def"), Id(name), LP, Id(param), RP, EQ>> \o body

\* the statement lines the generated sources are made of
Stmts ==
    { VarToks("x", <<L(3)>>),
      VarToks("i", <<L(7)>>),
      <<Id("x"), Op("Plus"), L(2)>>,
      <<Id("i")>>,
      LoopToks("Product", <<TNumber(<<3, 2>>)>>, <<TNumber(<<7, 2>>)>>, "i",
               <<Id("i"), Op("Star"), Id("x")>>),
      LoopToks("Sum", <<L(5)>>, <<L(1)>>, "i", <<Id("y")>>),
      LoopToks("Product", <<L(5)>>, <<L(1)>>, "i", <<Id("y")>>),
      LoopToks("Sum", <<L(1)>>, <<L(5)>>, "i", <<Id("i")>>),
      LoopToks("Product", <<L(1)>>, <<L(4)>>, "i", <<Id("i")>>),
      <<TFunction("Rand"), LP, RP>>,
      <<TFunction("RandInt"), LP, L(1), CM, L(2), RP>>,
      CallToks("g", <<L(2)>>),
      CallToks("h", <<Id("x")>>),
      LoopToks("Sum", <<L(1)>>, <<L(2)>>, "x",
               LoopToks("Product", <<L(2)>>, <<Id("x")>>, "i", <<Id("i")>>)),
      CallToks("sq", <<L(4)>>) \o <<Op("Plus"), L(1)>>,
      CallToks("f", <<Id("x")>>),
      CallToks("sq", <<L(3), CM, L(4)>>),
      <<TFunction("Floor"), LP, RP>>,
      <<L(3), TFunction("Fact")>>
    }

\* the definition lines of a source
DefSets ==
    { << >>,
      <<DefToks("sq", "x", <<Id("x"), Op("Pow"), L(2)>>)>>,
      <<DefToks("sq", "x", <<Id("x"), Op("Pow"), L(2)>>),
        DefToks("f", "i", CallToks("sq", <<Id("i"), Op("Plus"), L(1)>>)
                            \o <<Op("Minus"), Id("i")>>),
        DefToks("g", "n",
                LoopToks("Sum", <<L(1)>>, <<Id("n")>>, "i",
                         <<TFunction("Floor"), LP, Id("i"), Op("Star"), Id("n"), RP,
                           Op("Plus")>>
                             \o CallToks("g", <<Id("n"), Op("Minus"), L(1)>>))),
        DefToks("h", "x", CallToks("h", <<Id("x")>>))>>
    }

RECURSIVE SeqsUpTo(_, _)
\* the sequences of at most n elements of S
SeqsUpTo(S, n) ==
    IF n = 0 THEN {<< >>}
    ELSE LET shorter == SeqsUpTo(S, n - 1)
         IN shorter \cup {Append(q, x) : q \in shorter, x \in S}

\* a statement line that starts with a call name(...)
IsCallLine(tokens) == IsTok(tokens, 1, "Ident") /\ IsTok(tokens, 2, "LParen")

\* definitions come with no statement at all or with a statement that calls
Sources ==
    {[mode |-> "source", lines |-> d \o ss] :
        <<d, ss>> \in {p \in DefSets \X SeqsUpTo(Stmts, MaxStmts) :
                          \/ p[1] = << >>
                          \/ p[2] = << >>
                          \/ \E k \in 1..Len(p[2]) : IsCallLine(p[2][k])}}

\* compiled files that compile did not write, with the source beside them
\* x = 2, then the sum for i from 1 to x of a body that sets x to 5 and i to
\* 7 and gives i
BodyRebinds ==
    <<PushNumber(Num(2)), StoreVar("x"),
      SumLoop(<<PushNumber(Num(1))>>, <<LoadVar("x")>>, "i",
              <<PushNumber(Num(5)), StoreVar("x"), PushNumber(Num(7)),
                StoreVar("i"), LoadVar("i")>>)>>
CompiledFiles ==
    {[mode |-> "compiled", program |-> pr, lines |-> << >>] :
        pr \in { << >>, <<Instr("Add")>>, <<PushNumber(Num(1)), PushNumber(Num(2))>>,
                 BodyRebinds,
                 <<PushNumber(Num(1)), StoreVar("x")>>,
                 <<PushNumber(Num(1)), CallUserFunction("f")>>,
                 <<CallUserFunction("f")>>,
                 <<PushNumber(Num(1)), Instr("Sub")>>,
                 <<PushNumber(Num(2)), Instr("Pow")>>,
                 <<Instr("LogBase")>>,
                 <<PushNumber(Num(1)), Instr("RandInt")>>,
                 <<PushNumber(Num(1)), PushNumber(Num(2)),
                   SumLoop(<<PushNumber(Num(1))>>, <<PushNumber(Num(2))>>, "i",
                           <<Instr("Mul")>>)>>,
                 <<PushNumber(Num(1)), PushNumber(Num(2)),
                   ProductLoop(<<Instr("Floor")>>, <<PushNumber(Num(2))>>, "i",
                               <<LoadVar("i")>>)>>,
                 <<PushNumber(Num(3)),
                   SumLoop(<<PushNumber(Num(1))>>, <<Instr("Div")>>, "i",
                           <<LoadVar("i")>>)>>,
                 <<PushNumber(Num(3)),
                   ProductLoop(<<PushNumber(Num(1))>>, <<PushNumber(Num(1))>>, "i",
                               <<StoreVar("x")>>)>> }}
    \cup
    {[mode |-> "compiled", program |-> pr,
      lines |-> <<DefToks("sq", "x", <<Id("x"), Op("Pow"), L(2)>>)>>] :
        pr \in { <<CallUserFunction("sq")>>,
                 <<PushNumber(Num(3)),
                   SumLoop(<<PushNumber(Num(1))>>, <<PushNumber(Num(1))>>, "i",
                           <<CallUserFunction("sq")>>)>> }}

\* log(b, v) and randint(a, b): the keywords log and randint are the
\* special functions Log and RandInt
LogToks(b, v) == <<TFunction("Log"), LP>> \o b \o <<CM>> \o v \o <<RP>>
RandIntToks(a, b) == <<TFunction("RandInt"), LP>> \o a \o <<CM>> \o b \o <<RP>>

\* whole source files beside the generated ones
Programs ==
    {[mode |-> "source", lines |-> ls] :
        ls \in { <<LogToks(<<L(2)>>, <<L(8)>>)>>,
                 <<DefToks("lg", "x", LogToks(<<L(2)>>, <<Id("x")>>)),
                   CallToks("lg", <<L(8)>>)>>,
                 <<DefToks("lg", "x", LogToks(<<L(2)>>, <<Id("x")>>)),
                   CallToks("lg", <<L(2)>>)>>,
                 <<DefToks("ri", "x", RandIntToks(<<L(1)>>, <<Id("x")>>)),
                   CallToks("ri", <<L(2)>>)>>,
                 <<DefToks("ri", "x", RandIntToks(<<L(1)>>, <<Id("x")>>)),
                   CallToks("ri", <<L(0)>>)>>,
                 <<<<L(7), Op("Minus"), L(2)>>>>,
                 <<<<L(2), Op("Pow"), L(3), Op("Pow"), L(2)>>>>,
                 <<<<L(7), Op("Minus"), L(2), Op("Minus"), L(1)>>>>,
                 <<<<L(8), Op("Slash"), L(2), Op("Slash"), L(2)>>>>,
                 <<<<L(1), Op("Plus"), L(2), Op("Star"), L(3)>>>>,
                 <<<<L(2), Op("Star"), L(3), Op("Pow"), L(2)>>>>,
                 <<<<L(2), Op("Star"), L(3), Op("Plus"), L(1)>>>>,
                 <<<<L(8), Op("Slash"), L(2)>>>>,
                 <<<<L(2), Op("Pow"), L(3)>>>>,
                 <<RandIntToks(<<L(2)>>, <<L(1)>>)>>,
                 <<RandIntToks(<<TNumber(<<3, 2>>)>>, <<TNumber(<<9, 5>>)>>)>>,
                 <<RandIntToks(<<TNumber(<<5, 2>>)>>, <<TNumber(<<1, 2>>)>>)>>,
                 <<LoopToks("Sum", <<L(1)>>, <<L(2)>>, "i",
                            RandIntToks(<<L(3)>>, <<Id("i")>>))>>,
                 <<DefToks("c", "x", CallToks("nf", <<Id("x")>>)),
                   CallToks("c", <<L(1)>>)>>,
                 <<<<Tok("Def"), Id("f"), Id("x")>>, <<L(5)>>>>,
                 <<DefToks("sq", "x", <<Id("x"), Op("Pow"), L(2), L(3)>>),
                   CallToks("sq", <<L(2)>>)>>,
                 <<<<L(1), L(2)>>>>,
                 <<<<L(1), Op("Plus")>>>>,
                 <<<<TFunction("Floor"), LP, L(1), CM, L(2), RP>>>>,
                 <<<<TFunction("Abs"), LP, L(7), CM, L(8), RP, Op("Plus"),
                     L(1)>>>>,
                 <<DefToks("sq", "x", <<Id("x"), Op("Pow"), L(2)>>),
                   <<Id("sq"), LP, L(3), CM, L(4), RP>>>>,
                 <<<<L(1)>>, <<L(2)>>, <<L(3)>>, <<L(4)>>>>,
                 <<<<L(2), Op("Plus")>>
                       \o LoopToks("Sum", <<L(1)>>, <<L(2)>>, "i", <<Id("i")>>)>>,
                 <<DefToks("sq", "x", <<Id("x"), Op("Pow"), L(2)>>),
                   DefToks("f", "i", CallToks("sq", <<Id("i"), Op("Plus"), L(1)>>)
                                       \o <<Op("Minus"), Id("i")>>),
                   LoopToks("Sum", <<L(1)>>, <<L(2)>>, "i",
                            CallToks("f", <<Id("i")>>))>>,
                 <<LoopToks("Sum", <<L(1)>>, <<L(2)>>, "i",
                            <<Id("i"), Op("Star")>>
                                \o LoopToks("Product", <<L(1)>>, <<L(2)>>, "j",
                                            <<Id("j")>>))>> }}

Inputs == Sources \cup CompiledFiles \cup Programs

Init ==
    /\ input \in Inputs
    /\ phase = "parse"
    /\ main_expr = Sequence(<< >>)
    /\ user_functions = EmptyEnv
    /\ program = << >>
    /\ frames = << >>
    /\ vars = EmptyEnv
    /\ ret = NoRet
    /\ outcome = NoOutcome
    /\ eval_outcome = NoOutcome
    /\ last = Ev("Init")
    /\ token_lines = << >>
    /\ encoded = << >>
    /\ top_run = NoOutcome

Next ==
    \/ Parse \/ CompileMain \/ RunCompiled
    \/ ExecPushNumber \/ ExecBinary \/ ExecUnary \/ ExecRand \/ ExecRandInt
    \/ ExecStoreVar \/ ExecLoadVar \/ ExecCallUserFunction \/ VmCallReturn
    \/ VmLoopEnter \/ VmLoopFromDone \/ VmLoopToDone \/ VmLoopIterate
    \/ VmLoopBodyDone \/ VmLoopExit \/ VmInnerReturn \/ VmTopReturn
    \/ EvalLeaf \/ EvalArgFirst \/ EvalArgDone \/ EvalBinaryOp
    \/ EvalCallArg \/ EvalCallEnter \/ EvalCallReturn \/ EvalSequence
    \/ EvalLoopBounds \/ EvalLoopIterate \/ EvalLoopBodyDone \/ EvalLoopExit

Spec == Init /\ [][Next]_vs

NextAgree == Next \/ StartEvalMain \/ EvalMainReturn

SpecAgree == Init /\ [][NextAgree]_vs

\* the steps of execute.  The interpreter is one sequential program: it
\* takes its next step whenever it has one.
Execute ==
    \/ ExecPushNumber \/ ExecBinary \/ ExecUnary \/ ExecRand \/ ExecRandInt
    \/ ExecStoreVar \/ ExecLoadVar \/ ExecCallUserFunction \/ VmCallReturn
    \/ VmLoopEnter \/ VmLoopFromDone \/ VmLoopToDone \/ VmLoopIterate
    \/ VmLoopBodyDone \/ VmLoopExit \/ VmInnerReturn \/ VmTopReturn
    \/ EvalLeaf \/ EvalArgFirst \/ EvalArgDone \/ EvalBinaryOp
    \/ EvalCallArg \/ EvalCallEnter \/ EvalCallReturn \/ EvalSequence
    \/ EvalLoopBounds \/ EvalLoopIterate \/ EvalLoopBodyDone \/ EvalLoopExit

SpecFair == Init /\ [][Next]_vs /\ WF_vs(Execute)

----------------------------------------------------------------------------
(* The two invocations of main on a source file (main.rs): the first
   tokenizes, parses, compiles and writes the encoded program, the second
   reads and decodes it *)

\* a name in lower case, in capitals, and with a capital first letter
Casings == {"lower", "upper", "capital"}
Cased(cs, how) ==
    [k \in 1..Len(cs) |->
        IF how = "upper" \/ (how = "capital" /\ k = 1)
        THEN to_ascii_uppercase(cs[k]) ELSE cs[k]]

\* the named functions of SpecialFunction: the name in lower case and the
\* variant.  Fact is written `!` and LogBase is the two-argument log.
FunctionNames ==
    { [name |-> <<"s", "i", "n">>, func |-> "Sin"],
      [name |-> <<"c", "o", "s">>, func |-> "Cos"],
      [name |-> <<"t", "a", "n">>, func |-> "Tan"],
      [name |-> <<"c", "o", "t">>, func |-> "Cot"],
      [name |-> <<"s", "e", "c">>, func |-> "Sec"],
      [name |-> <<"c", "s", "c">>, func |-> "Csc"],
      [name |-> <<"s", "i", "n", "h">>, func |-> "Sinh"],
      [name |-> <<"c", "o", "s", "h">>, func |-> "Cosh"],
      [name |-> <<"t", "a", "n", "h">>, func |-> "Tanh"],
      [name |-> <<"a", "s", "i", "n", "h">>, func |-> "Asinh"],
      [name |-> <<"a", "c", "o", "s", "h">>, func |-> "Acosh"],
      [name |-> <<"a", "t", "a", "n", "h">>, func |-> "Atanh"],
      [name |-> <<"e", "x", "p">>, func |-> "Exp"],
      [name |-> <<"l", "o", "g">>, func |-> "Log"],
      [name |-> <<"l", "o", "g", "1", "0">>, func |-> "Log10"],
      [name |-> <<"l", "o", "g", "2">>, func |-> "Log2"],
      [name |-> <<"s", "q", "r", "t">>, func |-> "Sqrt"],
      [name |-> <<"a", "b", "s">>, func |-> "Abs"],
      [name |-> <<"a", "s", "i", "n">>, func |-> "Asin"],
      [name |-> <<"a", "c", "o", "s">>, func |-> "Acos"],
      [name |-> <<"a", "t", "a", "n">>, func |-> "Atan"],
      [name |-> <<"a", "c", "o", "t">>, func |-> "Acot"],
      [name |-> <<"a", "s", "e", "c">>, func |-> "Asec"],
      [name |-> <<"a", "c", "s", "c">>, func |-> "Acsc"],
      [name |-> <<"p", "o", "w">>, func |-> "Pow"],
      [name |-> <<"f", "l", "o", "o", "r">>, func |-> "Floor"],
      [name |-> <<"r", "a", "n", "d">>, func |-> "Rand"],
      [name |-> <<"r", "a", "n", "d", "i", "n", "t">>, func |-> "RandInt"] }

\* name(2), the name in one of the casings
FunctionText(f, how) == <<Cased(f.name, how) \o <<"(", "2", ")">>>>
FunctionTexts == {FunctionText(f, how) : f \in FunctionNames, how \in Casings}

\* further source texts
Texts ==
    { <<<<"1", " ", "+", " ", "2">>>>,
        <<<<"#", " ", "a", " ", "c", "o", "m", "m", "e", "n", "t">>, << >>,
          <<" ", " ", " ">>, <<"2", " ", "*", " ", "3">>>>,
        <<<<"1", ".", "2", ".", "3", " ", "+", " ", "4">>>>,
        <<<<".", " ", "5">>>>,
        <<<<"1", ".", " ", "+", " ", ".", "5">>>>,
        <<<<"s", "q", "(", "3", ")", " ", "=", ">", " ", "4", " ", "|", " ",
          "1">>>>,
        <<<<"2", " ", "!", " ", "e", "n", "d">>>>,
        <<<<"d", "e", "f", " ", "s", "q", "(", "x", ")", " ", "=", " ", "x",
          " ", "^", " ", "2">>, <<"s", "q", "(", "3", ")">>>>,
        <<<<"v", "a", "r", " ", "x", " ", "=", " ", "3">>, <<"x", " ", "+",
          " ", "1">>>>,
        <<<<"x", "1", " ", "=", " ", "2">>>> }

\* texts that write names with leading underscores, among them _tmp as a
\* variable, as a loop parameter and as a function parameter
UnderscoreTexts ==
    { <<<<"v", "a", "r", " ", "_", "t", "m", "p", " ", "=", " ", "5">>,
        <<"7">>, <<"_", "t", "m", "p">>>>,
      <<<<"3">>, <<"s", "u", "m", "(", "f", "r", "o", "m", ":", " ", "1", ",",
        " ", "t", "o", ":", " ", "2", ",", " ", "p", "a", "r", "a", ":", " ",
        "_", "t", "m", "p", ",", " ", "_", "t", "m", "p", ")">>>>,
      <<<<"d", "e", "f", " ", "f", "(", "_", "t", "m", "p", ")", " ", "=", " ",
        "_", "t", "m", "p">>, <<"2">>, <<"f", "(", "1", ")">>>>,
      <<<<"_", "_", "x", " ", "+", " ", "a", "_", "b">>>>,
      <<<<"v", "a", "r", " ", "x", " ", "=", " ", "2">>, <<"_", "t", "m", "p",
        " ", "=", " ", "4">>, <<"x">>>> }

\* programs given to the encoder as they are: one per instruction variant,
\* numbers of both signs and the special values, names, loops nested to
\* depth three, the empty program and one of LongProgramLen instructions
One == <<PushNumber(Num(1))>>
LongProgramLen == 40
CodecPrograms ==
    { <<Instr(Bytecode[k])>> : k \in 2..35 }
    \cup { <<PushNumber(n)>> :
             n \in {Num(0), Num(1), Num(-1), Num(2), Num(3), Num(-6), Num(255),
                    Num(256), Num(1000), <<1, 2>>, <<3, 2>>, <<-7, 4>>,
                    <<1, 1024>>, <<5, 16>>, NaN, PosInf, NegInf} }
    \cup { <<StoreVar(n)>> : n \in {"x", "_tmp", "a_b"} }
    \cup { <<LoadVar(n)>> : n \in {"x", "i", "x1"} }
    \cup { <<CallUserFunction(n)>> : n \in {"f", "sq"} }
    \cup { << >>,
           [k \in 1..LongProgramLen |-> Instr("Add")],
           <<PushNumber(Num(2)), PushNumber(Num(3)), Instr("Add"),
             StoreVar("_tmp"), LoadVar("x")>>,
           <<SumLoop(One, One, "i", <<LoadVar("i")>>)>>,
           <<ProductLoop(One, <<PushNumber(Num(3))>>, "i", <<LoadVar("i")>>)>>,
           <<SumLoop(<< >>, << >>, "i", << >>)>>,
           <<SumLoop(One, One, "i",
                     <<ProductLoop(One, <<PushNumber(Num(2))>>, "j",
                                   <<LoadVar("i"), LoadVar("j"), Instr("Mul")>>)>>),
             Instr("Floor")>>,
           <<ProductLoop(<<SumLoop(One, One, "i", <<LoadVar("i")>>)>>,
                         <<SumLoop(One, One, "j",
                                   <<SumLoop(One, One, "i", One)>>)>>,
                         "x",
                         <<SumLoop(One, One, "i",
                                   <<ProductLoop(One, One, "j",
                                       <<SumLoop(One, One, "y",
                                                 <<LoadVar("y")>>)>>)>>),
                           CallUserFunction("f")>>)>> }

\* texts that begin with sum or product
LoopTexts ==
    { <<<<"s", "u", "m", "(", "f", "r", "o", "m", ":", " ", "1", ",", " ",
          "t", "o", ":", " ", "3", ",", " ", "p", "a", "r", "a", ":", " ",
          "i", ",", " ", "i", ")">>>>,
        <<<<"p", "r", "o", "d", "u", "c", "t", "(", "f", "r", "o", "m", ":",
          " ", "1", ",", " ", "t", "o", ":", " ", "3", ",", " ", "p", "a",
          "r", "a", ":", " ", "i", ",", " ", "i", "*", "2", ")">>>>,
        <<<<"S", "U", "M", "(", "f", "r", "o", "m", ":", " ", "1", ",", " ",
          "t", "o", ":", " ", "3", ",", " ", "p", "a", "r", "a", ":", " ",
          "i", ",", " ", "i", ")">>>>,
        <<<<"s", "u", "m", "(", "f", "r", "o", "m", " ", "1", ",", " ", "t",
          "o", " ", "3", ",", " ", "p", "a", "r", "a", " ", "i", ",", " ",
          "i", ")">>>>,
        <<<<"p", "r", "o", "d", "u", "c", "t", "(", "f", "r", "o", "m", ";",
          " ", "1", ",", " ", "t", "o", "@", " ", "3", ",", " ", "p", "a",
          "r", "a", "#", " ", "i", ",", " ", "i", ")">>>>,
        <<<<"s", "u", "m", "(", "F", "r", "o", "m", ":", " ", "1", ",", " ",
          "t", "o", ":", " ", "3", ",", " ", "p", "a", "r", "a", ":", " ",
          "i", ",", " ", "i", ")">>>>,
        <<<<"s", "u", "m", "(", "t", "o", ":", " ", "3", ",", " ", "f", "r",
          "o", "m", ":", " ", "1", ",", " ", "p", "a", "r", "a", ":", " ",
          "i", ",", " ", "i", ")">>>>,
        <<<<"s", "u", "m", "(", "f", "r", "o", "m", ":", " ", "1", " ", "t",
          "o", ":", " ", "3", ",", " ", "p", "a", "r", "a", ":", " ", "i",
          ",", " ", "i", ")">>>>,
        <<<<"s", "u", "m", "(", "f", "r", "o", "m", ":", " ", "1", ",", " ",
          "t", "o", ":", " ", "3", ",", " ", "p", "a", "r", "a", ":", " ",
          "i", ",", " ", "i">>>>,
        <<<<"s", "u", "m", " ", "f", "r", "o", "m", ":", " ", "1", ",", " ",
          "t", "o", ":", " ", "3", ",", " ", "p", "a", "r", "a", ":", " ",
          "i", ",", " ", "i", ")">>>>,
        <<<<"s", "u", "m", "(", "f", "r", "o", "m", ":", " ", "1", ",", " ",
          "t", "o", ":", " ", "3", ",", " ", "p", "a", "r", "a", "m", ":",
          " ", "i", ",", " ", "i", ")">>>>,
        <<<<"s", "u", "m", "(", "f", "r", ":", "o", "m", " ", "1", ",", " ",
          "t", "o", ":", " ", "3", ",", " ", "p", "a", "r", "a", ":", " ",
          "i", ",", " ", "i", ")">>>>,
        <<<<"s", "u", "m", "(", "f", "r", "o", "m", ":", " ", "1", ",", " ",
          "t", "o", ":", " ", "3", ",", " ", "p", "a", "r", "a", ":", " ",
          "i", ",", " ", "i", ")", " ", "7">>>>,
        <<<<"s", "u", "m", "(", "f", "r", "o", "m", ":", " ", "1", ",", " ",
          "t", "o", ":", " ", "3", ",", " ", "p", "a", "r", "a", ":", " ",
          "i", ")">>>>,
        <<<<"s", "u", "m">>>>,
        <<<<"p", "r", "o", "d", "u", "c", "t", "(", "f", "r", "o", "m", ":",
          " ", "1", ",", " ", "t", "o", ":", " ", "3", ",", " ", "i", ",",
          " ", "i", ")">>>> }

FileInputs ==
    { [mode |-> "text", text |-> t] :
        t \in FunctionTexts \cup Texts \cup LoopTexts \cup UnderscoreTexts }
    \cup { [mode |-> "program", program |-> pr] : pr \in CodecPrograms }

InitFiles ==
    /\ input \in FileInputs
    /\ phase = IF input.mode = "text" THEN "tokenize" ELSE "save"
    /\ main_expr = Sequence(<< >>)
    /\ user_functions = EmptyEnv
    /\ program = IF input.mode = "text" THEN << >> ELSE input.program
    /\ frames = << >>
    /\ vars = EmptyEnv
    /\ ret = NoRet
    /\ outcome = NoOutcome
    /\ eval_outcome = NoOutcome
    /\ last = Ev("Init")
    /\ token_lines = << >>
    /\ encoded = << >>
    /\ top_run = NoOutcome

\* tokenize of the source text (main.rs 66)
Tokenize ==
    /\ phase = "tokenize"
    /\ token_lines' = tokenize(input.text)
    /\ phase' = "parse"
    /\ last' = Ev("Tokenize")
    /\ UNCHANGED <<input, main_expr, user_functions, program, frames, vars, ret,
                   outcome, eval_outcome, encoded,
                   top_run>>

\* parse of the token lines (main.rs 67)
ParseTokens ==
    /\ phase = "parse"
    /\ LET r == parse(token_lines)
       IN IF ~r.ok
          THEN /\ outcome' = Fatal(r.msg)
               /\ phase' = "done"
               /\ last' = Ev("ParsePanic")
               /\ UNCHANGED <<main_expr, user_functions>>
          ELSE /\ main_expr' = r.main_expr
               /\ user_functions' = r.user_functions
               /\ phase' = "compile"
               /\ last' = Ev("Parse")
               /\ UNCHANGED outcome
    /\ UNCHANGED <<input, program, frames, vars, ret, eval_outcome, token_lines,
                   encoded,
                   top_run>>

\* compile of the main expression (main.rs 68-69)
CompileTokens ==
    /\ phase = "compile"
    /\ IF CompilePanics(main_expr)
       THEN /\ outcome' = Fatal("compile panic")
            /\ phase' = "done"
            /\ last' = Ev("CompilePanic")
            /\ UNCHANGED program
       ELSE /\ program' = Compile(main_expr)
            /\ phase' = "save"
            /\ last' = Ev("Compile")
            /\ UNCHANGED outcome
    /\ UNCHANGED <<input, main_expr, user_functions, frames, vars, ret,
                   eval_outcome, token_lines, encoded,
                   top_run>>

\* the program is encoded and written to the .mthc file (main.rs 71-73)
Save ==
    /\ phase = "save"
    /\ encoded' = encode_to_vec(program)
    /\ phase' = "saved"
    /\ last' = Ev("Save")
    /\ UNCHANGED <<input, main_expr, user_functions, program, frames, vars, ret,
                   outcome, eval_outcome, token_lines, top_run>>

\* the next invocation reads the file and decodes it (main.rs 79-82)
Load ==
    /\ phase = "saved"
    /\ LET r == decode_from_slice(encoded)
       IN IF ~r.ok
          THEN /\ outcome' = Fatal("Failed to decode bytecode")
               /\ phase' = "done"
               /\ last' = Ev("DecodePanic")
               /\ UNCHANGED program
          ELSE /\ program' = r.v
               /\ phase' = "loaded"
               /\ last' = Ev("Load")
               /\ UNCHANGED outcome
    /\ UNCHANGED <<input, main_expr, user_functions, frames, vars, ret,
                   eval_outcome, token_lines, encoded,
                   top_run>>

NextFiles == Tokenize \/ ParseTokens \/ CompileTokens \/ Save \/ Load

SpecFiles == InitFiles /\ [][NextFiles]_vs

----------------------------------------------------------------------------
(* The two executors on the same program: run_bytecode_with_functions runs
   it from its empty stack and environment, then
   run_bytecode_with_functions_inner is called on it with an empty stack and
   an empty environment and the same function table *)

MaxProgramLen == 4

\* the instructions the loop-free programs are made of
LoopFreeInstrs ==
    { PushNumber(Num(2)), Instr("Sub"), Instr("Abs"), StoreVar("x"),
      LoadVar("x"), LoadVar("y"), CallUserFunction("sq"),
      CallUserFunction("g"), CallUserFunction("nf") }
LoopFreePrograms ==
    SeqsUpTo(LoopFreeInstrs, MaxProgramLen)
        \cup { <<PushNumber(Num(2)), PushNumber(Num(2)), Instr("RandInt")>>,
               <<PushNumber(Num(2)), Instr("RandInt")>>,
               <<PushNumber(<<1, 2>>), PushNumber(<<1, 2>>), Instr("RandInt")>>,
               <<PushNumber(Num(1)), PushNumber(Num(0)), Instr("Div")>>,
               <<PushNumber(Num(3)), Instr("Fact"), Instr("Floor")>>,
               <<PushNumber(Num(2)), PushNumber(Num(8)), Instr("LogBase")>>,
               <<PushNumber(Num(8)), Instr("LogBase")>>,
               <<PushNumber(Num(2)), StoreVar("x"), PushNumber(Num(2)),
                 CallUserFunction("g")>>,
               <<PushNumber(Num(2)), StoreVar("x"), PushNumber(Num(3)),
                 CallUserFunction("sq"), LoadVar("x"), Instr("Sub")>>,
               <<PushNumber(Num(2)), PushNumber(Num(2)),
                 CallUserFunction("sq"), Instr("Sub"), Instr("Abs"),
                 CallUserFunction("nf")>>,
               <<PushNumber(Num(2)), PushNumber(Num(3)), Instr("Pow"),
                 PushNumber(Num(4)), Instr("Mul"), PushNumber(Num(1)),
                 Instr("Add")>> }
\* sq(x) = x^2, and g(y) = x - y, which reads the caller's x
ExecutorFunctions ==
    [n \in {"sq", "g"} |->
        IF n = "sq"
        THEN [param |-> "x", body |-> BinaryOp(Ident("x"), "Pow", Number(Num(2)))]
        ELSE [param |-> "y", body |-> BinaryOp(Ident("x"), "Minus", Ident("y"))]]

InitExecutors ==
    /\ input \in {[mode |-> "executors", program |-> pr] : pr \in LoopFreePrograms}
    /\ phase = "run"
    /\ main_expr = Sequence(<< >>)
    /\ user_functions = ExecutorFunctions
    /\ program = input.program
    /\ frames = <<VmFrame("top", input.program)>>
    /\ vars = EmptyEnv
    /\ ret = NoRet
    /\ outcome = NoOutcome
    /\ eval_outcome = NoOutcome
    /\ last = Ev("Init")
    /\ token_lines = << >>
    /\ encoded = << >>
    /\ top_run = NoOutcome

\* the top-level executor has ended: its end is kept and the sub-program
\* executor is called on the same program
StartInner ==
    /\ phase = "done" /\ input.mode = "executors" /\ top_run.k = "none"
    /\ top_run' = [k |-> "ended", outcome |-> outcome, vars |-> vars,
                   last |-> last]
    /\ frames' = <<VmFrame("inner", program)>>
    /\ vars' = EmptyEnv
    /\ ret' = NoRet
    /\ outcome' = NoOutcome
    /\ phase' = "run"
    /\ last' = Ev("StartInner")
    /\ UNCHANGED <<input, main_expr, user_functions, program, eval_outcome,
                   token_lines, encoded>>

NextExecutors ==
    \/ StartInner
    \/ ExecPushNumber \/ ExecBinary \/ ExecUnary \/ ExecRandInt
    \/ ExecStoreVar \/ ExecLoadVar \/ ExecCallUserFunction \/ VmCallReturn
    \/ VmInnerReturn \/ VmTopReturn
    \/ EvalLeaf \/ EvalBinaryOp

SpecExecutors == InitExecutors /\ [][NextExecutors]_vs

----------------------------------------------------------------------------
(* Properties *)

Src(lines) == [mode |-> "source", lines |-> lines]
\* execute, or a panic before it, has ended the run
Ended == outcome # NoOutcome

DefSq == DefToks("sq", "x", <<Id("x"), Op("Pow"), L(2)>>)

\* the least integer not below f and the greatest integer not above t, for
\* finite f and t
CeilOf(f) == CHOOSE n \in -20..20 : RLe(f, Num(n)) /\ ~RLe(f, Num(n - 1))
FloorOf(t) == CHOOSE n \in -20..20 : RLe(Num(n), t) /\ ~RLe(Num(n + 1), t)
\* the integers a..b in ascending order
Ascending(a, b) == IF a <= b THEN [j \in 1..(b - a + 1) |-> a + j - 1] ELSE << >>

RECURSIVE SumOf(_), ProductOf(_)
SumOf(vals) == IF vals = << >> THEN Num(0) ELSE RAdd(SumOf(Front(vals)), Last(vals))
ProductOf(vals) ==
    IF vals = << >> THEN Num(1) ELSE RMul(ProductOf(Front(vals)), Last(vals))

RECURSIVE HasLoopOrCall(_)
\* expr holds a sum/product loop or a user-function call
HasLoopOrCall(expr) ==
    CASE expr.k \in {"Sum", "Product", "FunctionCall", "FunctionDef"} -> TRUE
      [] expr.k \in {"Number", "Ident"} -> FALSE
      [] expr.k = "Assign" -> HasLoopOrCall(expr.expr)
      [] expr.k = "BinaryOp" -> HasLoopOrCall(expr.left) \/ HasLoopOrCall(expr.right)
      [] expr.k = "Function" -> HasLoopOrCall(expr.arg)
      [] expr.k = "Sequence" -> \E i \in 1..Len(expr.exprs) : HasLoopOrCall(expr.exprs[i])

RECURSIVE UsesRandom(_)
\* expr draws a random number: two runs of it need not agree
UsesRandom(expr) ==
    CASE expr.k \in {"Number", "Ident", "FunctionDef"} -> FALSE
      [] expr.k \in {"Sum", "Product"} ->
           UsesRandom(expr.from) \/ UsesRandom(expr.to) \/ UsesRandom(expr.body)
      [] expr.k = "Assign" -> UsesRandom(expr.expr)
      [] expr.k = "BinaryOp" -> UsesRandom(expr.left) \/ UsesRandom(expr.right)
      [] expr.k = "Function" -> expr.func \in {"Rand", "RandInt"} \/ UsesRandom(expr.arg)
      [] expr.k = "FunctionCall" -> UsesRandom(expr.arg)
      [] expr.k = "Sequence" -> \E i \in 1..Len(expr.exprs) : UsesRandom(expr.exprs[i])

RECURSIVE HasMultiArgCall(_)
\* expr holds a user-function call with two or more arguments
HasMultiArgCall(expr) ==
    CASE expr.k \in {"Number", "Ident", "FunctionDef"} -> FALSE
      [] expr.k \in {"Sum", "Product"} ->
           HasMultiArgCall(expr.from) \/ HasMultiArgCall(expr.to)
               \/ HasMultiArgCall(expr.body)
      [] expr.k = "Assign" -> HasMultiArgCall(expr.expr)
      [] expr.k = "BinaryOp" -> HasMultiArgCall(expr.left) \/ HasMultiArgCall(expr.right)
      [] expr.k = "Function" -> HasMultiArgCall(expr.arg)
      [] expr.k = "FunctionCall" ->
           (expr.arg.k = "Sequence" /\ Len(expr.arg.exprs) >= 2) \/ HasMultiArgCall(expr.arg)
      [] expr.k = "Sequence" ->
           \E i \in 1..Len(expr.exprs) : HasMultiArgCall(expr.exprs[i])

\* the same number, or an error in both
SameOutcome(a, b) ==
    IF a.k = "ok" THEN b.k = "ok" /\ a.v = b.v ELSE a.k = "err" /\ b.k = "err"

\* C1: for a source without loops, without user functions and without random
\* draws, the outcome of compile + execute is the outcome of eval_expr on the
\* same main expression from an empty environment: the same number, or an
\* error in both.
C1_VmAgreesWithEvaluator ==
    (phase = "evaldone" /\ user_functions = EmptyEnv
        /\ ~HasLoopOrCall(main_expr) /\ ~UsesRandom(main_expr))
    => SameOutcome(outcome, eval_outcome)

\* C2: when a SumLoop or ProductLoop of the VM (top-level program or loop
\* sub-program) has completed, the loop parameter is bound as it was just
\* before the loop: to its earlier value, or not at all.
C2_LoopRestoresParam ==
    (last.op = "LoopExit" /\ last.by \in {"top", "inner"})
    => Get(vars, last.param) = last.pre

\* C3: when a user-function call made by the VM or by the evaluator, at any
\* depth, has returned, the parameter of the function is bound as it was
\* just before the call: to its earlier value, or not at all.
C3_CallRestoresParam ==
    last.op = "CallReturn" => Get(vars, last.param) = last.pre

\* a recursive call made by the evaluator inside a function body has
\* returned and its parameter, bound before the call, has its earlier value
C3_Witness ==
    /\ last.op = "CallReturn" /\ last.by = "eval" /\ last.name = "g"
    /\ last.depth >= 4
    /\ last.pre.some /\ Get(vars, last.param) = last.pre

\* C4: execute ends with a number or a typed error, never with a
\* process-fatal failure, whatever the program and the function table.
C4_ExecuteNeverFatal ==
    (phase = "done" /\ last.op \notin {"ParsePanic", "CompilePanic"})
    => outcome.k \in {"ok", "err"}

\* C5: a loop whose bounds evaluate to finite f and t runs its body for the
\* integers ceil(f)..floor(t), once each in ascending order, and yields the
\* sum (product) of the body's values; a body that is the parameter gives
\* the integers themselves, so 1..5 sums to 15 and 1..4 multiplies to 24.
C5_LoopRange ==
    /\ (last.op = "LoopExit" /\ IsFinite(last.from_val) /\ IsFinite(last.to_val))
       => /\ last.idxs = Ascending(CeilOf(last.from_val), FloorOf(last.to_val))
          /\ Len(last.vals) = Len(last.idxs)
          /\ last.pushed = (IF IsSum(last.kind) THEN SumOf(last.vals)
                            ELSE ProductOf(last.vals))
          /\ last.body_is_param
             => \A j \in 1..Len(last.idxs) : last.vals[j] = Num(last.idxs[j])
    /\ (Ended /\ input = Src(<<LoopToks("Sum", <<L(1)>>, <<L(5)>>, "i", <<Id("i")>>)>>))
       => outcome = Ok(Num(15))
    /\ (Ended /\ input = Src(<<LoopToks("Product", <<L(1)>>, <<L(4)>>, "i", <<Id("i")>>)>>))
       => outcome = Ok(Num(24))

\* a top-level product loop over 1.5..3.5 has run for i = 2, 3
C5_Witness ==
    /\ last.op = "LoopExit" /\ last.by = "top" /\ last.kind = "ProductLoop"
    /\ last.from_val = <<3, 2>> /\ last.to_val = <<7, 2>>
    /\ last.idxs = <<2, 3>> /\ Len(last.vals) = 2

\* C6: when ceil(from) > floor(to) the body is run zero times and the loop
\* yields 0 (sum) or 1 (product), also when the body would fail: no loop is
\* ever in an iteration with an empty range.
C6_EmptyRange ==
    /\ (last.op = "LoopExit" /\ IsFinite(last.from_val) /\ IsFinite(last.to_val)
           /\ CeilOf(last.from_val) > FloorOf(last.to_val))
       => /\ last.idxs = << >> /\ last.vals = << >>
          /\ last.pushed = (IF IsSum(last.kind) THEN Num(0) ELSE Num(1))
    /\ \A d \in 1..Len(frames) :
          (frames[d].lp.ph \in {"iter", "body"}
              /\ IsFinite(frames[d].lp.from_val) /\ IsFinite(frames[d].lp.to_val))
          => CeilOf(frames[d].lp.from_val) <= FloorOf(frames[d].lp.to_val)
    /\ (Ended /\ input = Src(<<LoopToks("Sum", <<L(5)>>, <<L(1)>>, "i", <<Id("y")>>)>>))
       => outcome = Ok(Num(0))
    /\ (Ended /\ input = Src(<<LoopToks("Product", <<L(5)>>, <<L(1)>>, "i", <<Id("y")>>)>>))
       => outcome = Ok(Num(1))

\* the product over 5..1 of an unbound name has ended with 1
C6_Witness ==
    /\ phase = "done"
    /\ input = Src(<<LoopToks("Product", <<L(5)>>, <<L(1)>>, "i", <<Id("y")>>)>>)
    /\ last.op = "TopReturn" /\ outcome = Ok(Num(1))

\* the source has two or more statements and the last is no assignment
SeveralStatements ==
    /\ input.mode = "source" /\ main_expr.k = "Sequence"
    /\ Len(main_expr.exprs) >= 2 /\ Last(main_expr.exprs).k # "Assign"
\* the program counter of the first instruction of the last statement
LastStatementPc == Len(program) - Len(Compile(Last(main_expr.exprs))) + 1

\* C7: with two or more statements, the last an expression, nothing of the
\* earlier statements is on the stack when the last statement starts, and
\* the one value on the stack at the end, that of the last statement, is
\* the result; `var x = 3` then `x + 2` gives 5.
C7_LastStatementValue ==
    /\ (SeveralStatements /\ phase = "run" /\ Len(frames) = 1
           /\ Top.lp.ph = "none" /\ Top.pc = LastStatementPc)
       => Top.stack = << >>
    /\ (SeveralStatements /\ last.op = "TopReturn")
       => Len(last.stack) = 1 /\ outcome = Ok(last.stack[1])
    /\ (Ended /\ input = Src(<<VarToks("x", <<L(3)>>), <<Id("x"), Op("Plus"), L(2)>>>>))
       => outcome = Ok(Num(5))

\* `var x = 3` then `x + 2` has ended with 5
C7_Witness ==
    /\ phase = "done" /\ last.op = "TopReturn" /\ SeveralStatements
    /\ input = Src(<<VarToks("x", <<L(3)>>), <<Id("x"), Op("Plus"), L(2)>>>>)
    /\ outcome = Ok(Num(5))

\* C8: a call name(e) of `def name(p) = body` evaluates body in the
\* environment of the call with p bound to the value of e and every other
\* name as it is at call time, and the value of body is the value of the
\* call; `def sq(x) = x^2` then `sq(4) + 1` gives 17.
C8_CallEvaluatesBody ==
    /\ last.op = "CallEnter"
       => /\ Top.k = "ev" /\ Top.st = "start"
          /\ Top.e = user_functions[last.name].body
          /\ last.param = user_functions[last.name].param
          /\ DOMAIN vars = DOMAIN last.env \cup {last.param}
          /\ vars[last.param] = last.arg
          /\ \A n \in DOMAIN last.env \ {last.param} : vars[n] = last.env[n]
    /\ (last.op = "CallReturn" /\ last.by = "vm")
       => Top.stack # << >> /\ Last(Top.stack) = last.result
    /\ (Ended /\ input = Src(<<DefSq, CallToks("sq", <<L(4)>>) \o <<Op("Plus"), L(1)>>>>))
       => outcome = Ok(Num(17))

\* `def sq(x) = x^2` then `sq(4) + 1` has ended with 17
C8_Witness ==
    /\ phase = "done" /\ last.op = "TopReturn"
    /\ input = Src(<<DefSq, CallToks("sq", <<L(4)>>) \o <<Op("Plus"), L(1)>>>>)
    /\ outcome = Ok(Num(17))

\* every line of the source is a function definition (none: empty input)
OnlyDefinitions ==
    /\ input.mode = "source"
    /\ \A i \in 1..Len(input.lines) : IsDefLine(input.lines[i], 1)

\* C9: a program that ends with an empty value stack, among them the program
\* of an empty source and of a source of definitions only, ends execute with
\* the error "No result on stack", not with a panic.
C9_NoResultError ==
    /\ (last.op = "TopReturn" /\ last.stack = << >>)
       => outcome = Err("No result on stack")
    /\ (Ended /\ OnlyDefinitions) => outcome = Err("No result on stack")

\* a source of definitions only has ended with the error
C9_Witness ==
    /\ phase = "done" /\ OnlyDefinitions /\ input.lines # << >>
    /\ last.op = "TopReturn" /\ last.stack = << >>
    /\ outcome = Err("No result on stack")

\* C10: a source that calls a user function with two or more arguments is
\* parsed and compiled, and execute then ends with an error, never with a
\* number.
C10_MultiArgCallFails ==
    (phase = "done" /\ input.mode = "source" /\ HasMultiArgCall(main_expr))
    => outcome.k # "ok"


\* C11: the source line log(b, v) is parsed to the base-form log function
\* applied to the Sequence [b, v], is compiled to the code of b, the code of
\* v and one LogBase instruction, and executes to the logarithm of v in
\* base b
C11_TwoArgumentLog ==
    \A b, v \in {Num(2), Num(8)} :
        input.mode = "source" /\ input.lines = <<LogToks(<<TNumber(b)>>, <<TNumber(v)>>)>>
        => /\ phase # "parse"
                => main_expr = Function("LogBase", Sequence(<<Number(b), Number(v)>>))
           /\ phase \in {"run", "done"}
                => program = <<PushNumber(b), PushNumber(v), Instr("LogBase")>>
           /\ phase = "done" => outcome = Ok(RLog(v, b))


\* a definition line whose body is log(b, v) or randint(a, b)
TwoArgBody(tokens) ==
    /\ IsDefLine(tokens, 1)
    /\ TokAt(tokens, 7) \in {TFunction("Log"), TFunction("RandInt")}
    /\ \E k \in 9..Len(tokens) : tokens[k] = CM
\* a statement line that is log(b, v) or randint(a, b)
TwoArgLine(tokens) ==
    /\ TokAt(tokens, 1) \in {TFunction("Log"), TFunction("RandInt")}
    /\ \E k \in 3..Len(tokens) : tokens[k] = CM

\* C12: a call to a user function whose body is log(b, v) or randint(a, b)
\* makes execute return an error whatever the argument is, while the same
\* application standing alone at top level is executed by the VM
C12_TwoArgInBodyFails ==
    /\ input.mode = "source" /\ Len(input.lines) = 2 /\ TwoArgBody(input.lines[1])
       /\ IsCallLine(input.lines[2]) /\ input.lines[2][1].name = input.lines[1][2].name
       /\ phase = "done"
       => outcome.k = "err"
    /\ input.mode = "source" /\ Len(input.lines) = 1 /\ TwoArgLine(input.lines[1])
       /\ phase = "done"
       => outcome.k = "ok"


\* a line parse should reject: a def line not of the form
\* def name(param) = body, or a line with no expression or with tokens left
\* over after its expression
TokensLeft(tokens, r) == ~r.ok \/ r.pos <= Len(tokens)
MalformedLine(tokens) ==
    /\ tokens # << >>
    /\ IF IsTok(tokens, 1, "Def")
       THEN ~IsDefLine(tokens, 1) \/ TokensLeft(tokens, parse_expr(tokens, 7))
       ELSE TokensLeft(tokens, parse_statement(tokens, 1))

\* C13: a source with a malformed line makes parse abort the run: the line
\* is neither skipped nor accepted with part of its tokens ignored
C13_MalformedLineAborts ==
    /\ input.mode = "source" /\ phase # "parse"
    /\ \E i \in 1..Len(input.lines) : MalformedLine(input.lines[i])
    => phase = "done" /\ last.op = "ParsePanic"


\* the failures of an instruction, of a loop sub-program and of an
\* evaluator step
ErrEvents ==
    {"Underflow", "RandIntErr", "LoadVarErr", "CallErr", "LoopErr", "EvalErr"}

\* C14: once an instruction or an evaluator step has failed, execute has
\* returned that error: no activation is left, no further step is possible
\* and the outcome is never a number
C14_FirstErrorEnds ==
    /\ last.op \in ErrEvents
       => outcome.k = "err" /\ phase = "done" /\ frames = << >>
    /\ outcome.k = "err"
       => frames = << >> /\ phase = "done" /\ ~ENABLED Next
          /\ last.op \in ErrEvents \cup {"TopReturn"}
\* a variable lookup fails inside the body of a loop whose bounds are numbers
C14_Witness ==
    /\ last.op = "LoadVarErr" /\ outcome.k = "err"
    /\ Len(program) = 1 /\ IsLoopInstr(program[1])
    /\ Len(program[1].from) = 1 /\ Len(program[1].to) = 1
    /\ program[1].from[1].op = "PushNumber" /\ program[1].to[1].op = "PushNumber"


\* the operands an instruction pops
Operands(ins) ==
    IF ins.op \in BinaryOps \cup {"RandInt"} THEN 2
    ELSE IF ins.op \in UnaryOps \cup {"StoreVar", "CallUserFunction"} THEN 1
    ELSE 0
\* the next instruction, of the program or of a loop sub-program, finds
\* fewer values on its stack than it pops
TooFew == AtInstr /\ Len(Top.stack) < Operands(CurInstr)
\* the stack-underflow errors
IsUnderflow(o) ==
    /\ o.k = "err"
    /\ o.msg \in {"Stack underflow on " \o op : op \in BinaryOps \cup UnaryOps \cup {"StoreVar"}}
            \cup {"Stack underflow on LogBase (a)", "Stack underflow on LogBase (b)",
                  "Stack underflow on RandInt (a)", "Stack underflow on RandInt (b)",
                  "Stack underflow on user function call"}
\* a call of a name that is in the function table, or no call
CalleeKnown == CurInstr.op = "CallUserFunction" => CurInstr.name \in DOMAIN user_functions

VmCallOfAbsent ==
    AtInstr /\ CurInstr.op = "CallUserFunction" /\ CurInstr.name \notin DOMAIN user_functions
EvalCallOfAbsent ==
    /\ phase = "run" /\ EvalAt({"FunctionCall"}, "arg")
    /\ Top.e.name \notin DOMAIN user_functions

\* C16: a call of a name absent from the function table makes execute
\* return the function-not-found error, in the VM and in function bodies;
\* with an empty function table no call is ever entered
C16_AbsentFunctionFails ==
    [][/\ VmCallOfAbsent
          => outcome' = Err("User-defined function not found") /\ frames' = << >>
       /\ EvalCallOfAbsent
          => outcome' = Err("User-defined function not found in body") /\ frames' = << >>
       /\ user_functions = EmptyEnv /\ AtInstr /\ CurInstr.op = "CallUserFunction"
          => outcome' = Err("User-defined function not found")]_vs
\* the body of a called function calls a name that is not in the table
C16_Witness ==
    /\ last.op = "CallErr"
    /\ outcome = Err("User-defined function not found in body")
    /\ user_functions # EmptyEnv


\* lo = ceil(min(a, b)) and hi = floor(max(a, b))
LoOf(a, b) == CeilOf(IF RLe(a, b) THEN a ELSE b)
HiOf(a, b) == FloorOf(IF RLe(a, b) THEN b ELSE a)
\* RandInt is the next instruction, on a stack that holds finite bounds
AtRandInt ==
    /\ AtInstr /\ CurInstr.op = "RandInt" /\ Len(Top.stack) >= 2
    /\ IsFinite(Top.stack[Len(Top.stack) - 1]) /\ IsFinite(Last(Top.stack))

\* C17: RandInt on finite bounds a, b in either order fails with the
\* invalid-range error exactly when lo > hi, otherwise replaces the two
\* bounds by one integer r with lo <= r <= hi, and every integer of lo..hi
\* is a possible r
C17_RandIntRange ==
    /\ (last.op = "RandIntErr" /\ IsFinite(last.a) /\ IsFinite(last.b))
       => /\ LoOf(last.a, last.b) > HiOf(last.a, last.b)
          /\ outcome = Err("Invalid range for randint: min > max")
    /\ (last.op = "RandInt" /\ IsFinite(last.a) /\ IsFinite(last.b))
       => /\ LoOf(last.a, last.b) <= last.val /\ last.val <= HiOf(last.a, last.b)
          /\ Last(Top.stack) = Num(last.val)
    /\ AtRandInt
       => LET a == Top.stack[Len(Top.stack) - 1]
              b == Last(Top.stack)
          IN \A r \in LoOf(a, b)..HiOf(a, b) :
                ENABLED (ExecRandInt /\ last'.op = "RandInt" /\ last'.val = r)
\* bounds given in descending order, neither an integer
C17_Witness ==
    /\ last.op = "RandInt" /\ last.a = <<5, 2>> /\ last.b = <<1, 2>>
    /\ last.val = 2


\* the one-line source  a op b  of two number literals
BinaryLine(a, op, b) == Src(<<<<L(a), Op(op), L(b)>>>>)
\* the source is one line  a op b  of two positive integer literals
IsBinaryLine ==
    /\ input.mode = "source" /\ Len(input.lines) = 1 /\ Len(input.lines[1]) = 3
    /\ \A k \in {1, 3} : /\ input.lines[1][k].t = "Number"
                         /\ IsInteger(input.lines[1][k].n) /\ input.lines[1][k].n[1] > 0
    /\ input.lines[1][2].t = "Operator"

\* C18: l op r is compiled to the code of l, the code of r, then the
\* operator, and executing it gives l - r, l / r and l ^ r, the left
\* operand first
C18_OperandOrder ==
    /\ (input.mode = "source" /\ phase \in {"run", "done"} /\ main_expr.k = "BinaryOp")
       => program = Compile(main_expr.left) \o Compile(main_expr.right)
                        \o <<BinaryInstr(main_expr.op)>>
    /\ (Ended /\ IsBinaryLine)
       => LET a == input.lines[1][1].n[1]
              b == input.lines[1][3].n[1]
              op == input.lines[1][2].op
          IN /\ op = "Minus" => outcome = Ok(Num(a - b))
             /\ op = "Slash" => outcome = Ok(Norm(a, b))
             /\ op = "Pow" => outcome = Ok(Num(a ^ b))
\* 7 - 2 has been executed
C18_Witness ==
    /\ Ended /\ input = BinaryLine(7, "Minus", 2)
    /\ program = <<PushNumber(Num(7)), PushNumber(Num(2)), Instr("Sub")>>
    /\ outcome = Ok(Num(5))


RECURSIVE HasFunctionDef(_)
\* expr holds a FunctionDef node
HasFunctionDef(expr) ==
    CASE expr.k = "FunctionDef" -> TRUE
      [] expr.k \in {"Number", "Ident"} -> FALSE
      [] expr.k \in {"Sum", "Product"} ->
           \/ HasFunctionDef(expr.from) \/ HasFunctionDef(expr.to)
           \/ HasFunctionDef(expr.body)
      [] expr.k \in {"Assign"} -> HasFunctionDef(expr.expr)
      [] expr.k = "BinaryOp" -> HasFunctionDef(expr.left) \/ HasFunctionDef(expr.right)
      [] expr.k \in {"Function", "FunctionCall"} -> HasFunctionDef(expr.arg)
      [] expr.k = "Sequence" -> \E i \in 1..Len(expr.exprs) : HasFunctionDef(expr.exprs[i])

\* every line is a well-formed definition or does not start with def
DefsWellFormed ==
    \A i \in 1..Len(input.lines) :
        IsTok(input.lines[i], 1, "Def") => IsDefLine(input.lines[i], 1)
\* the lines that are no definition, in source order
StatementLines == SelectSeq(input.lines, LAMBDA l : ~IsTok(l, 1, "Def"))
\* the last definition line of a name
LastDefOf(name) ==
    input.lines[CHOOSE i \in 1..Len(input.lines) :
                   /\ IsDefLine(input.lines[i], 1) /\ input.lines[i][2].name = name
                   /\ \A j \in (i + 1)..Len(input.lines) :
                         ~(IsDefLine(input.lines[j], 1) /\ input.lines[j][2].name = name)]

\* C19: after parse every definition line is in the function table (name,
\* parameter, body) and not in the main expression, which is the statement
\* of the one other line, or the Sequence of the statements of the other
\* lines in source order, and holds no FunctionDef
C19_DefsToTableOnly ==
    (last.op = "Parse" /\ input.mode = "source" /\ DefsWellFormed)
    => /\ DOMAIN user_functions
            = {input.lines[i][2].name :
                  i \in {j \in 1..Len(input.lines) : IsDefLine(input.lines[j], 1)}}
       /\ \A name \in DOMAIN user_functions :
             /\ user_functions[name].param = LastDefOf(name)[4].name
             /\ user_functions[name].body = parse_expr(LastDefOf(name), 7).e
       /\ LET stmts == [k \in 1..Len(StatementLines) |->
                           parse_statement(StatementLines[k], 1).e]
          IN main_expr = (IF Len(stmts) = 1 THEN stmts[1] ELSE Sequence(stmts))
       /\ ~HasFunctionDef(main_expr)
\* four definitions and two statements have been parsed
C19_Witness ==
    /\ last.op = "Parse" /\ Cardinality(DOMAIN user_functions) = 4
    /\ main_expr.k = "Sequence" /\ Len(main_expr.exprs) = 2


\* the binding strength of an operator
Prec(op) ==
    CASE op \in {"Plus", "Minus"} -> 1
      [] op \in {"Star", "Slash"} -> 2
      [] op = "Pow" -> 3
\* the tree of  a o1 b o2 c : the second operator takes b when it binds
\* tighter, or as tightly and is ^
TreeOf(a, o1, b, o2, c) ==
    IF Prec(o2) > Prec(o1) \/ (o1 = "Pow" /\ o2 = "Pow")
    THEN BinaryOp(Number(a), o1, BinaryOp(Number(b), o2, Number(c)))
    ELSE BinaryOp(BinaryOp(Number(a), o1, Number(b)), o2, Number(c))
\* a line of the form  number operator number operator number
IsTriple(tokens) ==
    /\ Len(tokens) = 5
    /\ \A k \in {1, 3, 5} : tokens[k].t = "Number"
    /\ \A k \in {2, 4} : tokens[k].t = "Operator" /\ tokens[k].op \in BinaryOperator

\* C20: a line  a o1 b o2 c  of three numbers is parsed by precedence
\* (^ over * and /, these over + and -) and associativity (^ to the right,
\* the others to the left): 2 ^ 3 ^ 2 is 2 ^ (3 ^ 2) = 512, 7 - 2 - 1 is
\* (7 - 2) - 1 = 4, 8 / 2 / 2 is (8 / 2) / 2 = 2, 1 + 2 * 3 is 1 + (2 * 3) = 7
C20_PrecedenceAndAssociativity ==
    (input.mode = "source" /\ Len(input.lines) = 1 /\ IsTriple(input.lines[1])
        /\ phase # "parse")
    => LET t == input.lines[1]
           line(a, o1, b, o2, c) == <<L(a), Op(o1), L(b), Op(o2), L(c)>>
       IN /\ last.op # "ParsePanic"
          /\ main_expr = TreeOf(t[1].n, t[2].op, t[3].n, t[4].op, t[5].n)
          /\ (Ended /\ t = line(2, "Pow", 3, "Pow", 2)) => outcome = Ok(Num(512))
          /\ (Ended /\ t = line(7, "Minus", 2, "Minus", 1)) => outcome = Ok(Num(4))
          /\ (Ended /\ t = line(8, "Slash", 2, "Slash", 2)) => outcome = Ok(Num(2))
          /\ (Ended /\ t = line(1, "Plus", 2, "Star", 3)) => outcome = Ok(Num(7))
\* 2 ^ 3 ^ 2 has been parsed to 2 ^ (3 ^ 2) and executed
C20_Witness ==
    /\ Ended /\ input = Src(<<<<L(2), Op("Pow"), L(3), Op("Pow"), L(2)>>>>)
    /\ main_expr = BinaryOp(Number(Num(2)), "Pow",
                            BinaryOp(Number(Num(3)), "Pow", Number(Num(2))))
    /\ outcome = Ok(Num(512))

\* C21: decoding the bytes that encode_to_vec wrote for a program gives back
\* that program: the decode of a saved file never fails and leaves in
\* program the value that was encoded, for every instruction variant and for
\* loops nested in the sub-programs of loops
C21_RoundTrip ==
    [][phase = "saved" => phase' = "loaded" /\ program' = program]_vs
\* a program with loops nested three deep has been encoded and decoded
C21_Witness ==
    /\ phase = "loaded" /\ input.mode = "program"
    /\ program = input.program
    /\ Len(program) = 1 /\ program[1].op = "ProductLoop"
    /\ program[1].body[1].op = "SumLoop"
    /\ program[1].body[1].body[1].op = "ProductLoop"
    /\ program[1].body[1].body[1].body[1].op = "SumLoop"

\* C22: the name of every named function of the VM, written in lower case,
\* in capitals or with a capital first letter, is tokenized as the Function
\* token of that function, and not as an identifier
C22_FunctionNamesTokenized ==
    \A f \in FunctionNames, how \in Casings :
        (input.mode = "text" /\ input.text = FunctionText(f, how)
            /\ phase # "tokenize")
        => token_lines[1][1] = TFunction(f.func)

\* C23: when execute returns a number on the program compiled from the main
\* expression of a parsed source, the value stack held exactly one value
\* after the last instruction
C23_OneValueLeft ==
    (last.op = "TopReturn" /\ input.mode = "source" /\ outcome.k = "ok")
    => Len(last.stack) = 1
\* a source of several statements, whose values but the last are discarded,
\* has returned a number
C23_Witness ==
    /\ last.op = "TopReturn" /\ input.mode = "source" /\ outcome.k = "ok"
    /\ main_expr.k = "Sequence" /\ Len(main_expr.exprs) >= 3
    /\ \E k \in 1..Len(program) : program[k] = StoreVar(TmpName)

\* the text of the loop form: kw(from: a, to: b, para: p, body)
LoopFormText(kw, a, b, p, body) ==
    kw \o <<"(", "f", "r", "o", "m", ":", " ">> \o a
       \o <<",", " ", "t", "o", ":", " ">> \o b
       \o <<",", " ", "p", "a", "r", "a", ":", " ">> \o p
       \o <<",", " ">> \o body \o <<")">>
LoopKeywordTexts ==
    {Cased(kw, how) : kw \in {<<"s", "u", "m">>,
                              <<"p", "r", "o", "d", "u", "c", "t">>},
                      how \in Casings}
LoopExprTexts == {<<"1">>, <<"3">>, <<"i">>, <<"i", "*", "2">>}
LoopFormTexts ==
    {LoopFormText(kw, a, b, <<"i">>, body) :
        kw \in LoopKeywordTexts, a \in LoopExprTexts, b \in LoopExprTexts,
        body \in LoopExprTexts}
NotWhitespace(c) == ~is_whitespace(c)
\* a character that starts or continues a token; every other one is skipped
IsTokenChar(c) ==
    \/ is_alphanumeric(c) \/ c = "." \/ c = "=" \/ c = ">" \/ c = "_"
    \/ Punctuation(c) # Tok("None")
\* line is the loop form up to white space
HasLoopForm(line) ==
    \E form \in LoopFormTexts :
        SelectSeq(line, NotWhitespace) = SelectSeq(form, NotWhitespace)
\* line is the loop form up to the characters that tokenize skips
HasLoopFormButSkipped(line) ==
    \E form \in LoopFormTexts :
        SelectSeq(line, IsTokenChar) = SelectSeq(form, IsTokenChar)
\* the source is one of the one-line texts and parse has given a loop node
LoopNodeParsed ==
    /\ input.mode = "text" /\ input.text \in LoopTexts
    /\ last.op = "Parse" /\ main_expr.k \in {"Sum", "Product"}

\* C24 as stated: a text yields a Sum or Product node only when it has the
\* form kw(from: a, to: b, para: p, body) with the colons
C24_LoopOnlyFromExactForm == LoopNodeParsed => HasLoopForm(input.text[1])
\* C24 amended: a text yields a Sum or Product node only when it has that
\* form up to the characters tokenize skips, the colons among them
C24_LoopOnlyFromFormButSkipped ==
    LoopNodeParsed => HasLoopFormButSkipped(input.text[1])
\* a loop node has been parsed from the form written without its colons
C24_Witness ==
    /\ LoopNodeParsed
    /\ \A k \in 1..Len(input.text[1]) : input.text[1][k] # ":"

\* the activation at depth k is a VM activation inside a loop instruction
InLoopInstr(fs, k) == fs[k].k = "vm" /\ fs[k].lp.ph \in {"from", "to", "iter", "body", "exit"}
\* a from, to or body sub-program has just been started by the VM
SubProgramStarted(ev) == ev.op \in {"LoopEnter", "LoopFrom", "LoopIterate"}

\* C25: a loop instruction starts each of its sub-programs on an empty stack
\* of its own and in the environment of the run (for the body, with the
\* parameter bound in it); while the loop runs the enclosing stack stays as
\* it was, a sub-program that needs an operand fails although the enclosing
\* stack holds values, and the exit pushes exactly the accumulated value
C25_LoopFrameEffect ==
    [][ /\ (InVm /\ SubProgramStarted(last')) =>
            /\ Len(frames') = Len(frames) + 1
            /\ frames'[Len(frames')].stack = << >>
            /\ frames'[Len(frames)].stack = Top.stack
            /\ vars' = IF last'.op = "LoopIterate"
                       THEN Insert(vars, CurInstr.param, Num(Top.lp.i)) ELSE vars
        /\ \A k \in 1..Len(frames) :
            (k <= Len(frames') /\ InLoopInstr(frames, k) /\ InLoopInstr(frames', k))
            => frames'[k].stack = frames[k].stack
        /\ (InVm /\ AtInstr /\ Top.fn = "inner" /\ Top.stack = << >>
                /\ CurInstr.op \in UnaryOps \cup BinaryOps)
            => outcome'.k = "err"
        /\ (last'.op = "LoopExit" /\ last'.by \in {"top", "inner"}) =>
            /\ Len(frames') = Len(frames)
            /\ frames'[Len(frames)].stack = Append(Top.stack, last'.pushed) ]_vs
\* a loop whose enclosing stack held a value has pushed its own beside it
C25_Witness ==
    /\ last.op = "LoopExit" /\ last.by \in {"top", "inner"}
    /\ Len(Top.stack) >= 2 /\ last.idxs # << >>

\* where an activation is in a loop: "none" outside, then "from", "to",
\* "iter" (before an iteration), "body", "exit"
LoopPhaseOf(f) ==
    IF f.k = "vm" THEN (IF f.lp.ph = "call" THEN "none" ELSE f.lp.ph)
    ELSE IF f.e.k \in {"Sum", "Product"} /\ f.st # "start" THEN f.st
    ELSE "none"
LoopPhaseSteps ==
    { <<"none", "from">>, <<"from", "to">>, <<"to", "iter">>, <<"to", "exit">>,
      <<"iter", "body">>, <<"body", "iter">>, <<"body", "exit">>,
      <<"exit", "none">> }
Iterating == {"iter", "body", "exit"}

\* C26: a loop passes from its from sub-program to its to sub-program to its
\* iterations and never back, so each bound is evaluated once and before
\* every iteration; the loop does not touch the environment when it starts
\* from and to; once the bounds are known they stay as they are through
\* every iteration, the indices run are the next integers of the range, and
\* at the exit they are exactly the integers from from_i to to_i, whatever
\* the body stored
C26_BoundsOnceThenFixed ==
    [][ /\ last'.op \in {"LoopEnter", "LoopFrom", "LoopTo"} => vars' = vars
        /\ \A k \in 1..Len(frames) :
            k <= Len(frames') =>
            /\ LoopPhaseOf(frames[k]) # LoopPhaseOf(frames'[k])
                => <<LoopPhaseOf(frames[k]), LoopPhaseOf(frames'[k])>>
                       \in LoopPhaseSteps
            /\ (LoopPhaseOf(frames[k]) \in Iterating
                    /\ LoopPhaseOf(frames'[k]) \in Iterating)
                => /\ frames'[k].lp.from_val = frames[k].lp.from_val
                   /\ frames'[k].lp.to_val = frames[k].lp.to_val
                   /\ frames'[k].lp.from_i = frames[k].lp.from_i
                   /\ frames'[k].lp.to_i = frames[k].lp.to_i
                   /\ frames'[k].lp.idxs \in
                         {frames[k].lp.idxs,
                          Append(frames[k].lp.idxs,
                                 frames[k].lp.from_i + Len(frames[k].lp.idxs))}
            /\ LoopPhaseOf(frames'[k]) = "exit"
                => frames'[k].lp.idxs
                       = Ascending(frames'[k].lp.from_i, frames'[k].lp.to_i) ]_vs
\* the loop over 1..x has run for i = 1, 2 although its body set x to 5 and
\* i to 7
C26_Witness ==
    /\ last.op = "LoopExit" /\ program = BodyRebinds
    /\ last.idxs = <<1, 2>> /\ last.vals = <<Num(7), Num(7)>>
    /\ Get(vars, "x") = Some(Num(5))

\* the names called in an expression
RECURSIVE CallsOf(_)
CallsOf(e) ==
    CASE e.k \in {"Number", "Ident", "FunctionDef"} -> {}
      [] e.k = "Assign" -> CallsOf(e.expr)
      [] e.k = "BinaryOp" -> CallsOf(e.left) \cup CallsOf(e.right)
      [] e.k = "Function" -> CallsOf(e.arg)
      [] e.k = "FunctionCall" -> {e.name} \cup CallsOf(e.arg)
      [] e.k = "Sequence" -> UNION {CallsOf(e.exprs[j]) : j \in 1..Len(e.exprs)}
      [] e.k \in {"Sum", "Product"} ->
           CallsOf(e.from) \cup CallsOf(e.to) \cup CallsOf(e.body)
\* the names reached from the names S in at most n further calls
RECURSIVE CalledFrom(_, _, _)
CalledFrom(table, S, n) ==
    IF n = 0 THEN S
    ELSE CalledFrom(table,
             S \cup UNION {CallsOf(table[m].body) : m \in S \cap DOMAIN table},
             n - 1)
\* the call graph of the function table has no cycle
Acyclic(table) ==
    \A m \in DOMAIN table :
        m \notin CalledFrom(table, CallsOf(table[m].body),
                            Cardinality(DOMAIN table))
\* a loop whose range holds more integers than the model iterates
BeyondMaxIter ==
    /\ frames # << >> /\ LoopPhaseOf(Top) = "iter"
    /\ Len(Top.lp.idxs) >= MaxIter
    /\ Top.lp.to_i - Top.lp.from_i >= MaxIter

\* C27: with a function table whose call graph has no cycle, a run of
\* execute ends with a number or an error (unless a loop range is longer than
\* the model iterates), and a loop with finite bounds that is not cut short
\* by a failure runs max(0, floor(to) - ceil(from) + 1) iterations
C27_ExecuteTerminates ==
    /\ (phase = "run" /\ Acyclic(user_functions))
           ~> ((phase = "done" /\ outcome.k \in {"ok", "err"}) \/ BeyondMaxIter)
    /\ []((last.op = "LoopExit" /\ IsFinite(last.from_val)
              /\ IsFinite(last.to_val))
          => Len(last.idxs) =
                 IF FloorOf(last.to_val) < CeilOf(last.from_val) THEN 0
                 ELSE FloorOf(last.to_val) - CeilOf(last.from_val) + 1)
\* the sum over i = 1, 2 of f(i), f calling sq, has ended with a number
C27_Witness ==
    /\ phase = "done" /\ outcome.k = "ok"
    /\ DOMAIN user_functions = {"sq", "f"} /\ Acyclic(user_functions)
    /\ main_expr.k = "Sum"

\* the last top-level statement of the parsed source
LastStatement ==
    IF main_expr.k = "Sequence" /\ main_expr.exprs # << >>
    THEN Last(main_expr.exprs) ELSE main_expr
EndsWithAssign ==
    /\ input.mode = "source" /\ phase \in {"run", "done"}
    /\ last.op \notin {"ParsePanic", "CompilePanic"}
    /\ LastStatement.k = "Assign"
\* execute is at the StoreVar that ends the program of such a source
AtTrailingStore ==
    /\ EndsWithAssign /\ AtInstr /\ Top.fn = "top" /\ Len(frames) = 1
    /\ Top.pc = Len(Top.prog) /\ Top.stack # << >>

\* C28: when the last top-level statement of a source is `var x = e`, the
\* StoreVar that ends the program takes the value of e from the stack into x
\* and leaves the stack empty, and execute, having run to the end of the
\* program, returns the error "No result on stack"; it never returns a number
C28_TrailingAssignNoResult ==
    /\ []((EndsWithAssign /\ Ended) => outcome.k # "ok")
    /\ []((EndsWithAssign /\ last.op = "TopReturn")
          => /\ outcome = Err("No result on stack")
             /\ last.stack = << >>
             /\ LastStatement.name \in DOMAIN vars)
    /\ [][AtTrailingStore
          => /\ CurInstr = StoreVar(LastStatement.name)
             /\ vars' = Insert(vars, LastStatement.name, Last(Top.stack))
             /\ frames'[1].stack = << >>
             /\ frames'[1].pc > Len(program)]_vs
\* `var x = 3` alone has stored 3 under x and ended with the error
C28_Witness ==
    /\ EndsWithAssign /\ last.op = "TopReturn"
    /\ main_expr = Assign("x", Number(Num(3)))
    /\ Get(vars, "x") = Some(Num(3))
    /\ outcome = Err("No result on stack")
\* ... and so has a source that ends with it after a discarded statement
C28_WitnessAfterOthers ==
    /\ EndsWithAssign /\ last.op = "TopReturn"
    /\ main_expr.k = "Sequence" /\ Len(main_expr.exprs) = 2
    /\ main_expr.exprs[1].k # "Assign"
    /\ outcome = Err("No result on stack")

\* the sub-program executor has ended on the program the top-level executor
\* ended on before
InnerFailed == top_run.k = "ended" /\ phase = "done"
InnerReturned == top_run.k = "ended" /\ last.op = "InnerReturn" /\ frames = << >>

C29_WitnessReturned ==
    /\ InnerReturned
    /\ program = <<PushNumber(Num(2)), StoreVar("x"), PushNumber(Num(3)),
                   CallUserFunction("sq"), LoadVar("x"), Instr("Sub")>>
    /\ ret.s = <<Num(7)>> /\ Get(vars, "x") = Some(Num(2))

\* the first character of a name
FirstChar(name) == SubSeq(name, 1, 1)
\* the names written in an expression: variables, parameters, functions
RECURSIVE NamesOf(_)
NamesOf(e) ==
    CASE e.k = "Number" -> {}
      [] e.k = "Ident" -> {e.name}
      [] e.k = "Assign" -> {e.name} \cup NamesOf(e.expr)
      [] e.k = "BinaryOp" -> NamesOf(e.left) \cup NamesOf(e.right)
      [] e.k = "Function" -> NamesOf(e.arg)
      [] e.k = "FunctionDef" -> {e.name, e.arg} \cup NamesOf(e.body)
      [] e.k = "FunctionCall" -> {e.name} \cup NamesOf(e.arg)
      [] e.k = "Sequence" -> UNION {NamesOf(e.exprs[j]) : j \in 1..Len(e.exprs)}
      [] e.k \in {"Sum", "Product"} ->
           {e.param} \cup NamesOf(e.from) \cup NamesOf(e.to) \cup NamesOf(e.body)
SourceNames ==
    NamesOf(main_expr)
        \cup UNION {{f, user_functions[f].param} \cup NamesOf(user_functions[f].body)
                       : f \in DOMAIN user_functions}
\* the names a program reads or binds as a loop parameter
RECURSIVE ReadsOf(_)
ReadsOf(pr) ==
    UNION { CASE pr[k].op = "LoadVar" -> {pr[k].name}
              [] pr[k].op \in LoopVariants ->
                   {pr[k].param} \cup ReadsOf(pr[k].from) \cup ReadsOf(pr[k].to)
                       \cup ReadsOf(pr[k].body)
              [] OTHER -> {}
            : k \in 1..Len(pr) }

\* C30: tokenize produces no identifier that starts with an underscore, so
\* the scratch name _tmp is not among the variables, parameters and functions
\* of a parsed source, and the program compiled from it never reads _tmp
C30_TmpNeverASourceName ==
    (input.mode = "text" /\ phase # "tokenize")
    => /\ \A l \in 1..Len(token_lines) : \A k \in 1..Len(token_lines[l]) :
              token_lines[l][k].t = "Ident"
              => FirstChar(token_lines[l][k].name) # "_"
       /\ TmpName \notin SourceNames
       /\ TmpName \notin ReadsOf(program)
\* `var _tmp = 5`, `7`, `_tmp` is compiled to a program that stores 5 under
\* tmp, discards 7 into _tmp and reads tmp
C30_Witness ==
    /\ input.mode = "text" /\ phase = "save"
    /\ token_lines[1] = <<Tok("Var"), TIdent("tmp"), Tok("Assign"), TNumber(Num(5))>>
    /\ program = <<PushNumber(Num(5)), StoreVar("tmp"), PushNumber(Num(7)),
                   StoreVar(TmpName), LoadVar("tmp")>>

=============================================================================
